---- MODULE Spec2Model ----
(***************************************************************************)
(* Dependency mapping engine of skills/01_code_understanding/              *)
(* map_dependencies/main.py: file discovery, import extraction, the        *)
(* internal/external classifier, graph accumulation, the depth-first       *)
(* cycle search and report assembly.                                       *)
(*                                                                         *)
(* Modelling conventions                                                   *)
(*  - a Python str is a sequence of one-character strings, so that         *)
(*    startswith, split and suffix are computed and not looked up;         *)
(*  - a Python list is a sequence;                                         *)
(*  - a Python set is a duplicate-free sequence in insertion order; the    *)
(*    order in which the set is iterated is any element of Orders(s):      *)
(*    every permutation for sets of at most MaxPerm elements, insertion    *)
(*    order and its reverse for larger ones;                               *)
(*  - a Python dict is a sequence of <<key, value>> pairs in insertion     *)
(*    order, which is also its iteration order.                            *)
(***************************************************************************)
EXTENDS Integers, Sequences, FiniteSets, TLC

\* ------------------------------------------------------------------------
\* Bounds of the model
\* ------------------------------------------------------------------------
\* Sets of at most MaxPerm elements are iterated in every possible order.
MaxPerm == 2
\* Largest number of files in an enumerated source tree.
MaxFiles == 2
\* Largest number of import statements in an enumerated source tree.
MaxImports == 2
\* The same for the requests that name a language instead of "auto".
MaxFilteredImports == 1

\* ------------------------------------------------------------------------
\* Sequences, sets and dicts
\* ------------------------------------------------------------------------
Range(s) == {s[i] : i \in 1..Len(s)}

InSeq(x, s) == \E i \in 1..Len(s) : s[i] = x

Min(S) == CHOOSE x \in S : \A y \in S : x <= y

Max(S) == CHOOSE x \in S : \A y \in S : x >= y

\* seq[:n]
Take(s, n) == SubSeq(s, 1, IF Len(s) < n THEN Len(s) ELSE n)

Reverse(s) == [i \in 1..Len(s) |-> s[Len(s) + 1 - i]]

\* s with element number i removed
RemoveAt(s, i) == SubSeq(s, 1, i - 1) \o SubSeq(s, i + 1, Len(s))

\* A bug that keeps the targets in a list: every import adds one.
SetAddAgain(s, x) == Append(s, x)

\* set.add(x)
SetAdd(s, x) == IF InSeq(x, s) THEN s ELSE Append(s, x)

RECURSIVE Dedup(_)
\* set(list): the distinct elements, in order of first occurrence
Dedup(s) ==
    IF s = <<>> THEN <<>>
    ELSE SetAdd(Dedup(SubSeq(s, 1, Len(s) - 1)), s[Len(s)])

RECURSIVE Perms(_)
\* every arrangement of the duplicate-free sequence s
Perms(s) ==
    IF s = <<>> THEN {<<>>}
    ELSE UNION {{<<s[i]>> \o p : p \in Perms(RemoveAt(s, i))} : i \in 1..Len(s)}

\* the orders in which a Python set may be iterated
Orders(s) == IF Len(s) <= MaxPerm THEN Perms(s) ELSE {s, Reverse(s)}

\* dict: keys in insertion order
Keys(d) == [i \in 1..Len(d) |-> d[i][1]]

HasKey(d, k) == \E i \in 1..Len(d) : d[i][1] = k

KeyIndex(d, k) == CHOOSE i \in 1..Len(d) : d[i][1] = k

\* d.get(k, default)
Get(d, k, default) == IF HasKey(d, k) THEN d[KeyIndex(d, k)][2] ELSE default

\* d[k] = v
Put(d, k, v) ==
    IF HasKey(d, k) THEN [d EXCEPT ![KeyIndex(d, k)] = <<k, v>>]
    ELSE Append(d, <<k, v>>)

RECURSIVE SortFrom(_, _)
\* the <<key, element>> pairs with key c, then those with c - 1, ... down to 0
SortFrom(pairs, c) ==
    IF c < 0 THEN <<>>
    ELSE SelectSeq(pairs, LAMBDA p : p[1] = c) \o SortFrom(pairs, c - 1)

\* sorted(s, key=..., reverse=True), keys[i] >= 0 being the key of s[i]: the
\* sort is stable, so elements with equal keys keep their order
SortDesc(s, keys) ==
    LET pairs == [i \in 1..Len(s) |-> <<keys[i], s[i]>>]
        sorted == SortFrom(pairs, Max(Range(keys) \cup {0}))
    IN [i \in 1..Len(sorted) |-> sorted[i][2]]

\* ------------------------------------------------------------------------
\* Strings
\* ------------------------------------------------------------------------
\* str.startswith(prefix)
startswith(s, prefix) ==
    Len(s) >= Len(prefix) /\ SubSeq(s, 1, Len(prefix)) = prefix

\* str.endswith(suffix)
endswith(s, suffix) ==
    Len(s) >= Len(suffix) /\ SubSeq(s, Len(s) - Len(suffix) + 1, Len(s)) = suffix

\* str.split(sep)[0]: the text before the first sep, all of s without one
SplitFirst(s, sep) ==
    LET at == {i \in 1..Len(s) : s[i] = sep}
    IN IF at = {} THEN s ELSE SubSeq(s, 1, Min(at) - 1)

\* sep in s
HasChar(s, sep) == \E i \in 1..Len(s) : s[i] = sep

\* str.lower() on one character
LowerChar(c) ==
    CASE c = "J" -> "j"
      [] c = "S" -> "s"
      [] c = "P" -> "p"
      [] c = "Y" -> "y"
      [] c = "A" -> "a"
      [] c = "B" -> "b"
      [] OTHER -> c

lower(s) == [i \in 1..Len(s) |-> LowerChar(s[i])]

\* Path(p).name: the last component
PathName(p) ==
    LET at == {i \in 1..Len(p) : p[i] = "/"}
    IN IF at = {} THEN p ELSE SubSeq(p, Max(at) + 1, Len(p))

\* Path(p).suffix: from the last dot of the name, empty when the name has no
\* dot, starts with its only dot, or ends with a dot
PathSuffix(p) ==
    LET name == PathName(p)
        at == {i \in 1..Len(name) : name[i] = "."}
    IN IF at = {} \/ Max(at) = 1 \/ Max(at) = Len(name) THEN <<>>
       ELSE SubSeq(name, Max(at), Len(name))

\* ------------------------------------------------------------------------
\* Language detection
\* ------------------------------------------------------------------------
EXTENSION_TO_LANGUAGE ==
    << << <<".","p","y">>, "python" >>,
       << <<".","j","s">>, "javascript" >>,
       << <<".","m","j","s">>, "javascript" >>,
       << <<".","c","j","s">>, "javascript" >>,
       << <<".","j","s","x">>, "javascript" >>,
       << <<".","t","s">>, "typescript" >>,
       << <<".","t","s","x">>, "typescript" >>,
       << <<".","j","a","v","a">>, "java" >>,
       << <<".","g","o">>, "go" >> >>

detect_language(file_path) ==
    Get(EXTENSION_TO_LANGUAGE, lower(PathSuffix(file_path)), "unknown")

\* ------------------------------------------------------------------------
\* Dependency classification
\* ------------------------------------------------------------------------
PYTHON_STDLIB == {
    <<"o","s">>, <<"s","y","s">>, <<"r","e">>, <<"j","s","o","n">>, <<"t","i","m","e">>,
    <<"d","a","t","e","t","i","m","e">>, <<"p","a","t","h","l","i","b">>,
    <<"c","o","l","l","e","c","t","i","o","n","s">>, <<"i","t","e","r","t","o","o","l","s">>,
    <<"f","u","n","c","t","o","o","l","s">>, <<"t","y","p","i","n","g">>, <<"a","b","c">>,
    <<"a","s","t">>, <<"i","o">>, <<"m","a","t","h">>, <<"r","a","n","d","o","m">>,
    <<"s","u","b","p","r","o","c","e","s","s">>, <<"t","h","r","e","a","d","i","n","g">>,
    <<"m","u","l","t","i","p","r","o","c","e","s","s","i","n","g">>,
    <<"l","o","g","g","i","n","g">>, <<"u","n","i","t","t","e","s","t">>,
    <<"a","r","g","p","a","r","s","e">>, <<"c","o","n","f","i","g","p","a","r","s","e","r">>,
    <<"d","a","t","a","c","l","a","s","s","e","s">>, <<"e","n","u","m">>, <<"c","o","p","y">>,
    <<"h","a","s","h","l","i","b">>, <<"b","a","s","e","6","4">>, <<"u","r","l","l","i","b">>,
    <<"h","t","t","p">>, <<"s","o","c","k","e","t">>, <<"e","m","a","i","l">>,
    <<"h","t","m","l">>, <<"x","m","l">>, <<"s","q","l","i","t","e","3">>
}

JAVASCRIPT_BUILTIN == {
    <<"f","s">>, <<"p","a","t","h">>, <<"h","t","t","p">>, <<"h","t","t","p","s">>,
    <<"c","r","y","p","t","o">>, <<"o","s">>,
    <<"c","h","i","l","d","_","p","r","o","c","e","s","s">>, <<"e","v","e","n","t","s">>,
    <<"s","t","r","e","a","m">>, <<"u","t","i","l">>, <<"u","r","l">>,
    <<"q","u","e","r","y","s","t","r","i","n","g">>, <<"a","s","s","e","r","t">>,
    <<"b","u","f","f","e","r">>, <<"c","l","u","s","t","e","r">>, <<"d","n","s">>,
    <<"n","e","t">>, <<"p","r","o","c","e","s","s">>, <<"r","e","a","d","l","i","n","e">>,
    <<"t","l","s">>, <<"v","m">>, <<"z","l","i","b">>
}

\* A bug that takes every Python and Java target that is not relative for
\* external, standard library or not.
is_external_dependency_stdlib_external(module, language) ==
    IF startswith(module, <<".">>) THEN FALSE
    ELSE IF language \in {"python", "java"} THEN TRUE
    ELSE IF language \in {"javascript", "typescript"}
         THEN ~startswith(module, <<"/">>)
    ELSE IF language = "go"
         THEN HasChar(module, ".") \/ HasChar(module, "/")
    ELSE TRUE

\* A bug that leaves the test for relative targets to the language branches.
is_external_dependency_no_relative_rule(module, language) ==
    IF language = "python"
    THEN SplitFirst(module, ".") \notin PYTHON_STDLIB
    ELSE IF language \in {"javascript", "typescript"}
         THEN ~(startswith(module, <<".">>) \/ startswith(module, <<"/">>))
    ELSE IF language = "java"
         THEN ~(startswith(module, <<"j","a","v","a",".">>)
                \/ startswith(module, <<"j","a","v","a","x",".">>))
    ELSE IF language = "go"
         THEN HasChar(module, ".") \/ HasChar(module, "/")
    ELSE TRUE

is_external_dependency(module, language) ==
    IF startswith(module, <<".">>) THEN FALSE
    ELSE IF language = "python"
         THEN SplitFirst(module, ".") \notin PYTHON_STDLIB
    ELSE IF language \in {"javascript", "typescript"}
         THEN IF startswith(module, <<".">>) \/ startswith(module, <<"/">>)
              THEN FALSE
              ELSE IF module \in JAVASCRIPT_BUILTIN
                      \/ startswith(module, <<"n","o","d","e",":">>)
                   THEN TRUE
                   ELSE TRUE
    ELSE IF language = "java"
         THEN ~(startswith(module, <<"j","a","v","a",".">>)
                \/ startswith(module, <<"j","a","v","a","x",".">>))
    ELSE IF language = "go"
         THEN HasChar(module, ".") \/ HasChar(module, "/")
    ELSE TRUE

\* ------------------------------------------------------------------------
\* File discovery
\* ------------------------------------------------------------------------
\* The tree under source_path is [kind, entries]: kind is "missing", "file"
\* (source_path is a file, entries holds it) or "dir" (entries lists the files
\* below it in the order the directory walk yields them). A file is
\* [rel, text, readable, syntax_ok]: its path relative to the scan root (to
\* the parent directory for a single file), its import statements in textual
\* order, whether open/read succeeds, whether ast.parse succeeds.

\* A bug that drops the existence check.
PathExistsAlways(tree) == TRUE

\* Path(source_path).exists()
PathExists(tree) == tree.kind # "missing"

\* path_obj.rglob("*" + ext): the files whose name ends with ext, in walk order
rglob(entries, ext) == SelectSeq(entries, LAMBDA f : endswith(PathName(f.rel), ext))

RECURSIVE rglob_all(_, _, _)
\* for ext in extensions: files.extend(path_obj.rglob(f"*{ext}"))
rglob_all(entries, table, language) ==
    IF table = <<>> THEN <<>>
    ELSE (IF language = "auto" \/ table[1][2] = language
          THEN rglob(entries, table[1][1])
          ELSE <<>>)
         \o rglob_all(entries, Tail(table), language)

get_source_files(tree, language) ==
    IF tree.kind = "file" THEN tree.entries
    ELSE IF tree.kind # "dir" THEN <<>>
    ELSE rglob_all(tree.entries, EXTENSION_TO_LANGUAGE, language)

\* ------------------------------------------------------------------------
\* Import extraction
\* ------------------------------------------------------------------------
\* An import statement is [form, module, level, names]:
\*   py_import      import <module> [as <names[1]>]
\*   py_from        from <level dots><module> import <names>
\*   js_default     import <names[1]> from '<module>'
\*   js_named       import { <names> } from '<module>'
\*   js_namespace   import * as <names[1]> from '<module>'
\*   js_require     const <names[1]> = require('<module>')
\*   js_dynamic     import('<module>')
\*   java_import    import <module>;
\*   java_static    import static <module>;
\*   go_single      import "<module>"
\*   py_def_broken  def broken(            (a line ast.parse rejects)
\*   nul_bytes      a line of NUL bytes    (binary content)
\* An import record is <<module, import_type, symbols>>.

RECURSIVE Dots(_)
Dots(n) == IF n = 0 THEN <<>> ELSE <<".">> \o Dots(n - 1)

\* str.split(".")[-1]
SplitLast(s, sep) ==
    LET at == {i \in 1..Len(s) : s[i] = sep}
    IN IF at = {} THEN s ELSE SubSeq(s, Max(at) + 1, Len(s))

\* the import record a statement yields; how is "ast" for the syntax tree
\* visitor and "re" for a pattern
ImportRecord(s, how) ==
    CASE how = "ast" /\ s.form = "py_import" -> <<s.module, "direct", s.names>>
      [] how = "ast" /\ s.form = "py_from" -> <<s.module, "from", s.names>>
      [] s.form = "js_default" -> <<s.module, "default", s.names>>
      [] s.form = "js_named" -> <<s.module, "named", s.names>>
      [] s.form = "js_namespace" -> <<s.module, "namespace", s.names>>
      [] s.form = "js_require" -> <<s.module, "require", s.names>>
      [] s.form = "js_dynamic" -> <<s.module, "dynamic", <<>> >>
      [] s.form = "java_import" -> <<s.module, "direct", <<SplitLast(s.module, ".")>> >>
      [] s.form = "java_static" -> <<s.module, "static", <<SplitLast(s.module, ".")>> >>
      [] s.form = "go_single" -> <<s.module, "direct", <<>> >>
      [] OTHER -> <<>>

\* the records of the statements of the given forms, in textual order: one
\* re.finditer pass, or the visits of the import nodes of the syntax tree
MapForm(text, forms, how) ==
    LET found == SelectSeq(text, LAMBDA s : s.form \in forms)
    IN [i \in 1..Len(found) |-> ImportRecord(found[i], how)]

\* PythonImportVisitor: Import and ImportFrom nodes in source order; the
\* level of a relative import is not read
PythonImportVisitor(text) == MapForm(text, {"py_import", "py_from"}, "ast")

\* The forms of the lines that hold a character outside [\w\.,\s]: a greedy
\* group of either fallback pattern stops in them, and ast.parse rejects them.
FaultyForms == {"py_def_broken", "nul_bytes"}

\* the character U+0000
NUL == "NUL"

IMPORT_KW == <<"i", "m", "p", "o", "r", "t", " ">>

FROM_KW == <<"f", "r", "o", "m", " ">>

RECURSIVE JoinNames(_)
\* ", ".join(names)
JoinNames(names) ==
    IF names = <<>> THEN <<>>
    ELSE IF Len(names) = 1 THEN names[1]
    ELSE names[1] \o <<",", " ">> \o JoinNames(Tail(names))

\* the characters of the line a statement stands for
Line(s) ==
    CASE s.form = "py_import" -> IMPORT_KW \o s.module
      [] s.form = "py_from" ->
            FROM_KW \o Dots(s.level) \o s.module \o <<" ">> \o IMPORT_KW
            \o JoinNames(s.names)
      [] s.form = "py_def_broken" ->
            <<"d", "e", "f", " ", "b", "r", "o", "k", "e", "n", "(">>
      [] s.form = "nul_bytes" -> <<NUL>>
      [] OTHER -> <<>>

\* the longest prefix of a line that [\w\.,\s]+ matches
ClassPrefix(line) ==
    LET stop == {i \in 1..Len(line) : line[i] \in {"(", NUL}}
    IN IF stop = {} THEN line ELSE SubSeq(line, 1, Min(stop) - 1)

\* str.strip()
strip(s) ==
    LET ink == {i \in 1..Len(s) : s[i] \notin {" ", "\n"}}
    IN IF ink = {} THEN <<>> ELSE SubSeq(s, Min(ink), Max(ink))

RECURSIVE GreedyTail(_, _)
\* what a greedy [\w\.,\s]+ group goes on to match after the end of line i:
\* the newline and every whole line that follows, up to the first character
\* outside the class or the end of the text
GreedyTail(text, i) ==
    IF i >= Len(text) THEN <<"\n">>
    ELSE IF text[i + 1].form \in FaultyForms
         THEN <<"\n">> \o ClassPrefix(Line(text[i + 1]))
         ELSE <<"\n">> \o Line(text[i + 1]) \o GreedyTail(text, i + 1)

\* re.finditer yields non-overlapping matches: a line of the given form starts
\* a match unless the greedy group of an earlier match has consumed it, which
\* it has when no faulty line lies between the two
MatchStarts(text, form) ==
    {i \in 1..Len(text) :
        /\ text[i].form = form
        /\ \A k \in 1..(i - 1) :
              text[k].form = form =>
                  \E f \in (k + 1)..(i - 1) : text[f].form \in FaultyForms}

\* the elements of the index set S in increasing order
RECURSIVE Ascending(_)
Ascending(S) == IF S = {} THEN <<>> ELSE <<Min(S)>> \o Ascending(S \ {Min(S)})

\* the import pattern over the whole text: modules = group(1).split(","),
\* each stripped, recorded as (module.split(".")[0], "direct", [module]); an
\* import statement of the model names one module, so the group has no comma
\* unless a from line with several names was consumed
RegexImportRecord(text, i) ==
    LET module == strip(text[i].module \o GreedyTail(text, i))
    IN <<SplitFirst(module, "."), "direct", <<module>> >>

\* the from pattern: group(1) is the dotted module, group(2) the names and
\* whatever the greedy group consumed after them
RegexFromRecord(text, i) ==
    LET names == text[i].names
        last == strip(names[Len(names)] \o GreedyTail(text, i))
    IN <<Dots(text[i].level) \o text[i].module, "from",
         SubSeq(names, 1, Len(names) - 1) \o <<last>> >>

\* the import pattern over the whole text, then the from pattern
parse_python_imports_regex(text) ==
    LET imp == Ascending(MatchStarts(text, "py_import"))
        frm == Ascending(MatchStarts(text, "py_from"))
    IN [k \in 1..Len(imp) |-> RegexImportRecord(text, imp[k])]
       \o [k \in 1..Len(frm) |-> RegexFromRecord(text, frm[k])]

\* What a parser returns in place of its records when an exception leaves it.
Uncaught == <<"exception">>

\* A bug that lets the SyntaxError of ast.parse escape.
parse_python_imports_no_fallback(file) ==
    IF file.syntax_ok THEN PythonImportVisitor(file.text)
    ELSE Uncaught

\* try: ast.parse and the visitor; except SyntaxError: the patterns
parse_python_imports(file) ==
    IF file.syntax_ok THEN PythonImportVisitor(file.text)
    ELSE parse_python_imports_regex(file.text)

parse_js_imports(text) ==
    MapForm(text, {"js_default"}, "re") \o MapForm(text, {"js_named"}, "re")
    \o MapForm(text, {"js_namespace"}, "re") \o MapForm(text, {"js_require"}, "re")
    \o MapForm(text, {"js_dynamic"}, "re")

parse_java_imports(text) == MapForm(text, {"java_import", "java_static"}, "re")

parse_go_imports(text) == MapForm(text, {"go_single"}, "re")

\* open and read inside try/except Exception, then the parser of the language
parse_file_imports(file, language) ==
    IF ~file.readable THEN <<>>
    ELSE IF language = "python" THEN parse_python_imports(file)
    ELSE IF language \in {"javascript", "typescript"} THEN parse_js_imports(file.text)
    ELSE IF language = "java" THEN parse_java_imports(file.text)
    ELSE IF language = "go" THEN parse_go_imports(file.text)
    ELSE <<>>

\* ------------------------------------------------------------------------
\* State
\* ------------------------------------------------------------------------
VARIABLES
    fs,                \* the file system under source_path
    inputs,            \* ExecuteInputs of the request
    caller,            \* who runs the cycle search: "map_dependencies" or "direct"
    pc,                \* position in map_dependencies / find_circular_dependencies
    source_files,      \* map_dependencies: list returned by get_source_files
    file_pos,          \* map_dependencies: index of the file being analysed
    relative_path,     \* map_dependencies: node id of the file being analysed
    file_lang,         \* map_dependencies: language of the file being analysed
    imports,           \* map_dependencies: import records of the file still to process
    internal_deps,     \* map_dependencies: list of InternalDependency
    external_deps_map, \* map_dependencies: dict name -> [used_in, count]
    edges,             \* map_dependencies: dict source -> set of targets
    all_nodes,         \* map_dependencies: set of internal node ids
    external_nodes,    \* map_dependencies: set of external node ids
    external_deps,     \* map_dependencies: list of ExternalDependency
    graph_nodes,       \* map_dependencies: list of GraphNode
    graph_edges,       \* map_dependencies: list of GraphEdge
    adj,               \* find_circular_dependencies: its argument, each target
                       \* set in the order this run iterates it
    roots,             \* find_circular_dependencies: keys the outer loop has not reached
    stack,             \* find_circular_dependencies: active dfs calls, innermost last
    cycles,            \* find_circular_dependencies: cycles
    visited,           \* find_circular_dependencies: visited
    rec_stack,         \* find_circular_dependencies: rec_stack
    circular,          \* value returned by find_circular_dependencies
    outputs,           \* MapOutputs returned by map_dependencies
    status_code,       \* HTTP status of /execute, 0 while no response was sent
    previous,          \* the reports of the earlier requests for the same tree
    call,              \* is_external_dependency: the arguments of a direct call
    returned           \* is_external_dependency: <<the value returned>>, <<>> before

scanVars == <<fs, inputs, source_files, file_pos, relative_path, file_lang, imports,
              internal_deps, external_deps_map, edges, all_nodes, external_nodes,
              external_deps, graph_nodes, graph_edges, outputs, status_code>>

dfsVars == <<adj, roots, stack, cycles, visited, rec_stack, circular>>

unitVars == <<call, returned>>

vars == <<caller, pc, scanVars, dfsVars, previous, unitVars>>

\* ------------------------------------------------------------------------
\* find_circular_dependencies
\* ------------------------------------------------------------------------
CIRCULAR_LIMIT == 10

\* node in rec_stack
OnRecStack(node, stk) == InSeq(node, stk)

\* path[path.index(node):] + [node]; path.index raises ValueError when node
\* is not in path, which PathHas guards
PathHas(path, node) == InSeq(node, path)

\* A bug that takes the whole path for the cycle, not the part from the first
\* occurrence of node.
CycleFromRoot(path, node) == path \o <<node>>

CycleFrom(path, node) ==
    LET cycle_start == Min({i \in 1..Len(path) : path[i] = node})
    IN SubSeq(path, cycle_start, Len(path)) \o <<node>>

\* len(cycle) > 1 and cycle not in cycles
KeepCycle(cycle, found) == Len(cycle) > 1 /\ ~InSeq(cycle, found)

\* The state of the search as one value.
DfsState == [cycles |-> cycles, visited |-> visited, rec_stack |-> rec_stack,
             stack |-> stack, raised |-> FALSE]

\* A bug that tests `node in visited` before `node in rec_stack`: a node on the
\* stack is always visited, so no cycle is ever recorded.
dfs_enter_visited_first(st, node, path) ==
    IF node \in st.visited THEN st
    ELSE [st EXCEPT !.visited = @ \cup {node},
                    !.rec_stack = Append(@, node),
                    !.stack = Append(@, [node |-> node, path |-> path,
                                         todo |-> Get(adj, node, <<>>)])]

\* A bug that takes every visited node for a node on the stack: an edge into a
\* finished subtree is reported as a cycle.
dfs_enter_visited_as_stack(st, node, path) ==
    IF node \in st.visited
    THEN [st EXCEPT !.cycles = Append(@, path \o <<node>>)]
    ELSE [st EXCEPT !.visited = @ \cup {node},
                    !.rec_stack = Append(@, node),
                    !.stack = Append(@, [node |-> node, path |-> path,
                                         todo |-> Get(adj, node, <<>>)])]

\* A bug that drops the test `node in visited`: a node that is no longer on
\* the stack is expanded again.
dfs_enter_no_visited_test(st, node, path) ==
    IF OnRecStack(node, st.rec_stack)
    THEN IF ~PathHas(path, node) THEN [st EXCEPT !.raised = TRUE]
         ELSE LET cycle == CycleFrom(path, node)
              IN IF KeepCycle(cycle, st.cycles)
                 THEN [st EXCEPT !.cycles = Append(@, cycle)]
                 ELSE st
    ELSE [st EXCEPT !.visited = @ \cup {node},
                    !.rec_stack = Append(@, node),
                    !.stack = Append(@, [node |-> node, path |-> path,
                                         todo |-> Get(adj, node, <<>>)])]

\* A bug that leaves out visited.add(node).
dfs_enter_no_visited_add(st, node, path) ==
    IF OnRecStack(node, st.rec_stack)
    THEN IF ~PathHas(path, node) THEN [st EXCEPT !.raised = TRUE]
         ELSE LET cycle == CycleFrom(path, node)
              IN IF KeepCycle(cycle, st.cycles)
                 THEN [st EXCEPT !.cycles = Append(@, cycle)]
                 ELSE st
    ELSE IF node \in st.visited THEN st
    ELSE [st EXCEPT !.rec_stack = Append(@, node),
                    !.stack = Append(@, [node |-> node, path |-> path,
                                         todo |-> Get(adj, node, <<>>)])]

\* dfs(node, path) from its first line to the start of the neighbour loop:
\* a node on the stack closes a cycle and returns, a visited node returns, any
\* other node is marked, pushed and gets a frame whose todo lists its
\* neighbours in iteration order.
dfs_enter(st, node, path) ==
    IF OnRecStack(node, st.rec_stack)
    THEN IF ~PathHas(path, node) THEN [st EXCEPT !.raised = TRUE]
         ELSE LET cycle == CycleFrom(path, node)
              IN IF KeepCycle(cycle, st.cycles)
                 THEN [st EXCEPT !.cycles = Append(@, cycle)]
                 ELSE st
    ELSE IF node \in st.visited THEN st
    ELSE [st EXCEPT !.visited = @ \cup {node},
                    !.rec_stack = Append(@, node),
                    !.stack = Append(@, [node |-> node, path |-> path,
                                         todo |-> Get(adj, node, <<>>)])]

\* Store a search state; an exception leaves the function.
SetDfs(st) ==
    /\ cycles' = st.cycles
    /\ visited' = st.visited
    /\ rec_stack' = st.rec_stack
    /\ stack' = st.stack
    /\ pc' = IF st.raised THEN "raised" ELSE pc

\* A bug that returns every cycle found.
LimitCyclesNone(found) == found

\* cycles[:10]
LimitCycles(found) == Take(found, CIRCULAR_LIMIT)

\* for node in edges: if node not in visited: dfs(node, [])
DfsRoot ==
    /\ pc = "dfs"
    /\ stack = <<>>
    /\ roots # <<>>
    /\ roots' = Tail(roots)
    /\ SetDfs(IF Head(roots) \notin visited
              THEN dfs_enter(DfsState, Head(roots), <<>>)
              ELSE DfsState)
    /\ UNCHANGED <<caller, previous, unitVars, scanVars, adj, circular>>

\* for neighbor in edges.get(node, set()): dfs(neighbor, path + [node])
DfsNeighbor ==
    /\ pc = "dfs"
    /\ stack # <<>>
    /\ stack[Len(stack)].todo # <<>>
    /\ LET top == stack[Len(stack)]
           st == [DfsState EXCEPT !.stack[Len(stack)].todo = Tail(top.todo)]
       IN SetDfs(dfs_enter(st, Head(top.todo), Append(top.path, top.node)))
    /\ UNCHANGED <<caller, previous, unitVars, scanVars, adj, roots, circular>>

\* the neighbour loop is over: rec_stack.pop() and return from dfs
DfsReturn ==
    /\ pc = "dfs"
    /\ stack # <<>>
    /\ stack[Len(stack)].todo = <<>>
    /\ rec_stack' = SubSeq(rec_stack, 1, Len(rec_stack) - 1)
    /\ stack' = SubSeq(stack, 1, Len(stack) - 1)
    /\ UNCHANGED <<caller, previous, unitVars, pc, scanVars, adj, roots, cycles,
                   visited, circular>>

\* return cycles[:10]
DfsFinish ==
    /\ pc = "dfs"
    /\ stack = <<>>
    /\ roots = <<>>
    /\ circular' = LimitCycles(cycles)
    /\ pc' = IF caller = "map_dependencies" THEN "metrics" ELSE "done"
    /\ UNCHANGED <<caller, previous, unitVars, scanVars, adj, roots, stack,
                   cycles, visited, rec_stack>>

\* ------------------------------------------------------------------------
\* map_dependencies
\* ------------------------------------------------------------------------
INTERNAL_LIMIT == 100
EXTERNAL_LIMIT == 50
NODE_LIMIT == 200
EDGE_LIMIT == 500
ENTRY_POINT_LIMIT == 20
HIGHLY_DEPENDED_LIMIT == 10
USED_IN_LIMIT == 10

\* MapOutputs(summary=..., total_dependencies=0): every list keeps its default
DefaultOutputs(summary) ==
    [summary |-> summary,
     total_dependencies |-> 0,
     internal_dependencies |-> <<>>,
     external_dependencies |-> <<>>,
     dependency_graph |-> [nodes |-> <<>>, edges |-> <<>>],
     circular_dependencies |-> <<>>,
     entry_points |-> <<>>,
     highly_depended |-> <<>>]

\* The summary is the list of its sentences, each a format text and the
\* values formatted into it.
Sentence(text, args) == [text |-> text, args |-> args]

\* execute calls map_dependencies: the path check, get_source_files and the
\* two degenerate reports
Start ==
    /\ pc = "start"
    /\ IF ~PathExists(fs)
       THEN /\ outputs' = DefaultOutputs(<<Sentence("Path not found: ", <<>>)>>)
            /\ status_code' = 200
            /\ pc' = "done"
            /\ UNCHANGED source_files
       ELSE /\ source_files' = get_source_files(fs, inputs.language)
            /\ IF source_files' = <<>>
               THEN /\ outputs' = DefaultOutputs(
                                     <<Sentence("No source files found in: ", <<>>)>>)
                    /\ status_code' = 200
                    /\ pc' = "done"
               ELSE /\ pc' = "scan"
                    /\ UNCHANGED <<outputs, status_code>>
    /\ UNCHANGED <<caller, previous, unitVars, fs, inputs, file_pos,
                   relative_path, file_lang, imports, internal_deps,
                   external_deps_map, edges, all_nodes, external_nodes,
                   external_deps, graph_nodes, graph_edges, dfsVars>>

\* for file_path in source_files: language, imports, relative_path,
\* all_nodes.add; an exception that leaves parse_file_imports leaves
\* map_dependencies too, and execute answers it with status 500
NextFile ==
    /\ pc = "scan"
    /\ imports = <<>>
    /\ file_pos < Len(source_files)
    /\ LET file == source_files[file_pos + 1]
           lang == IF inputs.language # "auto" THEN inputs.language
                   ELSE detect_language(file.rel)
           parsed == parse_file_imports(file, lang)
       IN /\ file_pos' = file_pos + 1
          /\ file_lang' = lang
          /\ IF parsed = Uncaught
             THEN /\ pc' = "raised"
                  /\ status_code' = 500
                  /\ UNCHANGED <<imports, relative_path, all_nodes>>
             ELSE /\ imports' = parsed
                  /\ relative_path' = file.rel
                  /\ all_nodes' = SetAdd(all_nodes, file.rel)
                  /\ UNCHANGED <<pc, status_code>>
    /\ UNCHANGED <<caller, previous, unitVars, fs, inputs, source_files,
                   internal_deps, external_deps_map, edges, external_nodes,
                   external_deps, graph_nodes, graph_edges, outputs, dfsVars>>

\* module.split("/")[0].split(".")[0]
RootModule(module) == SplitFirst(SplitFirst(module, "/"), ".")

\* external_deps_map[root]["used_in"].append(path); ["count"] += 1
CountExternal(map, root, path) ==
    LET info == Get(map, root, [used_in |-> <<>>, count |-> 0])
    IN Put(map, root, [used_in |-> Append(info.used_in, path), count |-> info.count + 1])

InternalDependency(source, target, import_type, symbols) ==
    [source |-> source, target |-> target, import_type |-> import_type,
     symbols |-> symbols]

\* A bug that records external dependencies whatever the request says.
IncludeExternalAlways(request) == TRUE

\* if inputs.include_external
IncludeExternal(request) == request.include_external

\* for module, import_type, symbols in imports: one iteration
ProcessImport ==
    /\ pc = "scan"
    /\ imports # <<>>
    /\ imports' = Tail(imports)
    /\ LET module == imports[1][1]
           import_type == imports[1][2]
           symbols == imports[1][3]
       IN IF module = <<>>
          THEN UNCHANGED <<internal_deps, external_deps_map, edges, all_nodes,
                           external_nodes>>
          ELSE IF is_external_dependency(module, file_lang)
          THEN /\ IF IncludeExternal(inputs)
                  THEN /\ external_deps_map' =
                             CountExternal(external_deps_map, RootModule(module),
                                           relative_path)
                       /\ external_nodes' = SetAdd(external_nodes, RootModule(module))
                  ELSE UNCHANGED <<external_deps_map, external_nodes>>
               /\ UNCHANGED <<internal_deps, edges, all_nodes>>
          ELSE /\ internal_deps' =
                     Append(internal_deps,
                            InternalDependency(relative_path, module, import_type, symbols))
               /\ edges' = Put(edges, relative_path,
                               SetAdd(Get(edges, relative_path, <<>>), module))
               /\ all_nodes' = SetAdd(all_nodes, module)
               /\ UNCHANGED <<external_deps_map, external_nodes>>
    /\ UNCHANGED <<caller, previous, unitVars, pc, fs, inputs, source_files,
                   file_pos, relative_path, file_lang, external_deps,
                   graph_nodes, graph_edges, outputs, status_code, dfsVars>>

\* A bug that leaves the items in insertion order.
SortedExternalUnsorted(map) == map

\* the items of external_deps_map sorted by count, largest first
SortedExternal(map) == SortDesc(map, [i \in 1..Len(map) |-> map[i][2].count])

\* list(set(info["used_in"]))[:10]
UsedInChoices(used_in) == {Take(o, USED_IN_LIMIT) : o \in Orders(Dedup(used_in))}

RECURSIVE ExternalDepsChoices(_)
\* the ExternalDependency lists the comprehension can build from the sorted
\* items, one per way of iterating the used_in sets
ExternalDepsChoices(items) ==
    IF items = <<>> THEN {<<>>}
    ELSE {<<[name |-> items[1][1], used_in |-> u,
             import_count |-> items[1][2].count]>> \o rest :
             u \in UsedInChoices(items[1][2].used_in),
             rest \in ExternalDepsChoices(Tail(items))}

RECURSIVE IterationChoices(_)
\* the edge map with every target set in one of its iteration orders
IterationChoices(d) ==
    IF d = <<>> THEN {<<>>}
    ELSE {<< <<d[1][1], o>> >> \o rest :
             o \in Orders(d[1][2]), rest \in IterationChoices(Tail(d))}

GraphNode(id, type) == [id |-> id, type |-> type, path |-> id]

GraphEdge(source, target) == [source |-> source, target |-> target, weight |-> 1]

RECURSIVE BuildEdges(_)
\* for source, targets in edges.items(): for target in targets: append
BuildEdges(d) ==
    IF d = <<>> THEN <<>>
    ELSE [i \in 1..Len(d[1][2]) |-> GraphEdge(d[1][1], d[1][2][i])]
         \o BuildEdges(Tail(d))

\* the loop over the files is over: external_deps, graph_nodes, graph_edges,
\* then the call of find_circular_dependencies(edges)
BuildLists ==
    /\ pc = "scan"
    /\ imports = <<>>
    /\ file_pos = Len(source_files)
    /\ external_deps' \in ExternalDepsChoices(SortedExternal(external_deps_map))
    /\ \E internal_order \in Orders(all_nodes), external_order \in Orders(external_nodes) :
          graph_nodes' =
              [i \in 1..Len(internal_order) |-> GraphNode(internal_order[i], "internal")]
              \o [i \in 1..Len(external_order) |-> GraphNode(external_order[i], "external")]
    /\ adj' \in IterationChoices(edges)
    /\ graph_edges' = BuildEdges(adj')
    /\ roots' = Keys(edges)
    /\ pc' = "dfs"
    /\ UNCHANGED <<caller, previous, unitVars, fs, inputs, source_files,
                   file_pos, relative_path, file_lang, imports, internal_deps,
                   external_deps_map, edges, all_nodes, external_nodes, outputs,
                   status_code, stack, cycles, visited, rec_stack, circular>>

\* set.update(other): the new elements of other are added
SetUpdate(s, other) == s \o SelectSeq(other, LAMBDA x : ~InSeq(x, s))

RECURSIVE UnionAll(_)
\* targets = set(); for t_set in edges.values(): targets.update(t_set)
UnionAll(d) ==
    IF d = <<>> THEN <<>>
    ELSE SetUpdate(UnionAll(SubSeq(d, 1, Len(d) - 1)), d[Len(d)][2])

\* all_nodes in the order this run iterates it: the order graph_nodes was
\* built in
IteratedNodes ==
    LET internal == SelectSeq(graph_nodes, LAMBDA n : n.type = "internal")
    IN [i \in 1..Len(internal) |-> internal[i].id]

\* A bug that lists every node without incoming edge, importing or not.
EntryPointsNoSourceTest(order, d, targets) ==
    SelectSeq(order, LAMBDA n : ~InSeq(n, targets))

\* [n for n in all_nodes if n not in targets and n in edges]
EntryPoints(order, d, targets) ==
    SelectSeq(order, LAMBDA n : ~InSeq(n, targets) /\ HasKey(d, n))

\* sum(1 for deps in edges.values() if target in deps)
DependentCount(d, target) ==
    Cardinality({i \in 1..Len(d) : InSeq(target, d[i][2])})

\* sorted(dependent_counts.items(), by count, reverse)[:10] as HighlyDepended
HighlyDepended(d, target_order) ==
    LET counts == [i \in 1..Len(target_order) |-> DependentCount(d, target_order[i])]
        items == [i \in 1..Len(target_order) |->
                     [path |-> target_order[i], dependents_count |-> counts[i]]]
    IN Take(SortDesc(items, counts), HIGHLY_DEPENDED_LIMIT)

\* A bug that counts the internal dependencies only.
TotalDependenciesInternalOnly(internal, external) == Len(internal)

\* A bug that counts the edges of the graph instead of the dependency records.
TotalDependenciesByEdges(internal, external) == Len(graph_edges) + Len(external)

\* total = len(internal_deps) + len(external_deps)
TotalDependencies(internal, external) == Len(internal) + Len(external)

\* A bug that returns the internal dependencies untruncated.
LimitInternalNone(internal) == internal

\* internal_deps[:100]
LimitInternal(internal) == Take(internal, INTERNAL_LIMIT)

\* " ".join(summary_parts)
Summary(n_files, n_internal, n_external, cyc, highly) ==
    <<Sentence("Analyzed {} file(s).", <<n_files>>),
      Sentence("Found {} internal and {} external dependencies.",
               <<n_internal, n_external>>)>>
    \o (IF cyc # <<>>
        THEN <<Sentence("Detected {} circular dependency chain(s).", <<Len(cyc)>>)>>
        ELSE <<>>)
    \o (IF highly # <<>>
        THEN <<Sentence("Most depended: {} ({} dependents).",
                        <<highly[1].path, highly[1].dependents_count>>)>>
        ELSE <<>>)

\* entry points, highly depended files, the summary and the returned
\* MapOutputs, which execute wraps in a 200 response
Assemble ==
    /\ pc = "metrics"
    /\ \E target_order \in Orders(UnionAll(edges)) :
          LET targets == UnionAll(edges)
              entry_points == EntryPoints(IteratedNodes, edges, targets)
              highly_depended == HighlyDepended(edges, target_order)
          IN outputs' =
                [summary |-> Summary(Len(source_files), Len(internal_deps),
                                     Len(external_deps), circular, highly_depended),
                 total_dependencies |-> TotalDependencies(internal_deps, external_deps),
                 internal_dependencies |-> LimitInternal(internal_deps),
                 external_dependencies |-> Take(external_deps, EXTERNAL_LIMIT),
                 dependency_graph |-> [nodes |-> Take(graph_nodes, NODE_LIMIT),
                                       edges |-> Take(graph_edges, EDGE_LIMIT)],
                 circular_dependencies |-> circular,
                 entry_points |-> Take(entry_points, ENTRY_POINT_LIMIT),
                 highly_depended |-> highly_depended]
    /\ status_code' = 200
    /\ pc' = "done"
    /\ UNCHANGED <<caller, previous, unitVars, fs, inputs, source_files,
                   file_pos, relative_path, file_lang, imports, internal_deps,
                   external_deps_map, edges, all_nodes, external_nodes,
                   external_deps, graph_nodes, graph_edges, dfsVars>>

\* ------------------------------------------------------------------------
\* Direct calls of find_circular_dependencies (as the unit tests make them)
\* ------------------------------------------------------------------------
\* Largest number of targets of one node in the enumerated edge maps.
MaxOut == 2
\* Number of nodes of the dense edge maps, which hold more than 10 cycles.
DenseNodes == 5

CycleNodes == {<<"a">>, <<"b">>, <<"c">>}

\* duplicate-free sequences over S of at most n elements
RECURSIVE DistinctSeqs(_, _)
DistinctSeqs(S, n) ==
    IF n = 0 \/ S = {} THEN {<<>>}
    ELSE {<<>>} \cup UNION {{<<x>> \o s : s \in DistinctSeqs(S \ {x}, n - 1)} : x \in S}

\* every dict with the keys ks (in that order) and values from V
RECURSIVE DictsOver(_, _)
DictsOver(ks, V) ==
    IF ks = <<>> THEN {<<>>}
    ELSE {<< <<ks[1], v>> >> \o d : v \in V, d \in DictsOver(Tail(ks), V)}

\* every edge map over CycleNodes: any key order, any iteration order of the
\* target sets, empty target sets included
SmallEdgeMaps ==
    UNION {DictsOver(ks, DistinctSeqs(CycleNodes, MaxOut)) :
              ks \in DistinctSeqs(CycleNodes, Cardinality(CycleNodes))}

Digits == <<"0", "1", "2", "3", "4", "5", "6", "7", "8", "9">>

\* n0, n1, ...
DenseName(i) == <<"n", Digits[i]>>

\* the complete edge map on DenseNodes nodes, with or without self-loops, its
\* target sets iterated in ascending or descending order
DenseEdgeMaps ==
    {[i \in 1..DenseNodes |->
        LET all == [j \in 1..DenseNodes |-> DenseName(j)]
            tgt == IF loops THEN all ELSE RemoveAt(all, i)
        IN <<DenseName(i), IF up THEN tgt ELSE Reverse(tgt)>>] :
     loops \in BOOLEAN, up \in BOOLEAN}

ScanIdle ==
    /\ fs = [kind |-> "missing", entries |-> <<>>]
    /\ inputs = [language |-> "auto", depth |-> 3, include_external |-> TRUE,
                 output_format |-> "summary"]
    /\ source_files = <<>>
    /\ file_pos = 0
    /\ relative_path = <<>>
    /\ file_lang = "unknown"
    /\ imports = <<>>
    /\ internal_deps = <<>>
    /\ external_deps_map = <<>>
    /\ all_nodes = <<>>
    /\ external_nodes = <<>>
    /\ external_deps = <<>>
    /\ graph_nodes = <<>>
    /\ graph_edges = <<>>
    /\ outputs = <<>>
    /\ status_code = 0
    /\ previous = <<>>

\* no direct call of is_external_dependency is made
UnitIdle ==
    /\ call = [module |-> <<>>, language |-> "unknown"]
    /\ returned = <<>>

DfsIdle ==
    /\ stack = <<>>
    /\ cycles = <<>>
    /\ visited = {}
    /\ rec_stack = <<>>
    /\ circular = <<>>

\* find_circular_dependencies(edges) is called with an arbitrary edge map
InitCycles ==
    /\ caller = "direct"
    /\ pc = "dfs"
    /\ ScanIdle
    /\ UnitIdle
    /\ DfsIdle
    /\ edges \in SmallEdgeMaps \cup DenseEdgeMaps
    /\ adj = edges
    /\ roots = Keys(edges)

NextCycles == DfsRoot \/ DfsNeighbor \/ DfsReturn \/ DfsFinish

SpecCycles == InitCycles /\ [][NextCycles]_vars

\* The interpreter runs the call to its end: a statement that can run does.
SpecCyclesFair == SpecCycles /\ WF_vars(NextCycles)

\* ------------------------------------------------------------------------
\* Requests to /execute
\* ------------------------------------------------------------------------
Stmt(form, module, level, names) ==
    [form |-> form, module |-> module, level |-> level, names |-> names]

\* a readable file; ast.parse accepts it unless it holds a faulty line
File(rel, text) ==
    [rel |-> rel, text |-> text, readable |-> TRUE,
     syntax_ok |-> \A i \in 1..Len(text) : text[i].form \notin FaultyForms]

\* a file that open() or read() fails on (a directory named like a source
\* file, a dangling link, a file without read permission)
UnreadableFile(rel, text) == [File(rel, text) EXCEPT !.readable = FALSE]

A_JS == <<"a", ".", "j", "s">>
B_JS == <<"b", ".", "j", "s">>
HIDDEN_JS == <<".", "b", ".", "j", "s">>
C_PY == <<"c", ".", "p", "y">>

\* the file names of the enumerated source trees
RelPool == {A_JS, B_JS, HIDDEN_JS, C_PY}

\* import b from './b'; import a from './a'; import h from '.b.js';
\* const os = require('os')
JsStatements ==
    {Stmt("js_default", <<".", "/", "b">>, 0, << <<"b">> >>),
     Stmt("js_default", <<".", "/", "a">>, 0, << <<"a">> >>),
     Stmt("js_default", HIDDEN_JS, 0, << <<"h">> >>),
     Stmt("js_require", <<"o", "s">>, 0, << <<"o", "s">> >>)}

\* import os; from .b import x; import requests
PyStatements ==
    {Stmt("py_import", <<"o", "s">>, 0, << <<"o", "s">> >>),
     Stmt("py_from", <<"b">>, 1, << <<"x">> >>),
     Stmt("py_import", <<"r", "e", "q", "u", "e", "s", "t", "s">>, 0,
          << <<"r", "e", "q", "u", "e", "s", "t", "s">> >>)}

StatementsOf(rel) ==
    IF detect_language(rel) = "python" THEN PyStatements ELSE JsStatements

RECURSIVE TextsOf(_, _)
\* the texts of exactly n statements
TextsOf(pool, n) ==
    IF n = 0 THEN {<<>>}
    ELSE {<<s>> \o rest : s \in pool, rest \in TextsOf(pool, n - 1)}

RECURSIVE TreeEntries(_, _, _)
\* the directory listings of at most k files named from rels that hold at
\* most m import statements together
TreeEntries(rels, k, m) ==
    IF k = 0 THEN {<<>>}
    ELSE {<<>>} \cup
         UNION {UNION {{<<File(rel, text)>> \o rest :
                          text \in TextsOf(StatementsOf(rel), n),
                          rest \in TreeEntries(rels \ {rel}, k - 1, m - n)} :
                       n \in 0..m} :
                rel \in rels}

\* the missing path, the directories and the single files that hold at most
\* m import statements
SmallTrees(m) ==
    {[kind |-> "missing", entries |-> <<>>]}
    \cup {[kind |-> "dir", entries |-> e] : e \in TreeEntries(RelPool, MaxFiles, m)}
    \cup {[kind |-> "file", entries |-> e] : e \in TreeEntries(RelPool, 1, m) \ {<<>>}}

\* Source trees that overflow the output limits.
Letters == <<"a", "b", "c", "d", "e", "f", "g", "h">>

\* the i-th three-letter word, i in 0..511
Word(i) == <<Letters[((i \div 64) % 8) + 1], Letters[((i \div 8) % 8) + 1],
             Letters[(i % 8) + 1]>>

\* a.js with n imports of distinct relative modules ./aaa, ./aab, ...
ManyInternalTree(n) ==
    [kind |-> "file",
     entries |-> <<File(A_JS, [i \in 1..n |->
                      Stmt("js_default", <<".", "/">> \o Word(i - 1), 0, <<Word(i - 1)>>)])>>]

\* a.js with n imports of distinct packages aaa, aab, ...
ManyExternalTree(n) ==
    [kind |-> "file",
     entries |-> <<File(A_JS, [i \in 1..n |->
                      Stmt("js_require", Word(i - 1), 0, <<Word(i - 1)>>)])>>]

\* n files aaa.js, aab.js, ... that each import ./b and require os
ManyFilesTree(n) ==
    [kind |-> "dir",
     entries |-> [i \in 1..n |->
                     File(Word(i - 1) \o <<".", "j", "s">>,
                          <<Stmt("js_default", <<".", "/", "b">>, 0, << <<"b">> >>),
                            Stmt("js_require", <<"o", "s">>, 0, << <<"o", "s">> >>)>>)]]

\* a.js that requires n distinct packages aaa, aab, ... and then the last of
\* them once more
SkewedExternalTree(n) ==
    [kind |-> "file",
     entries |-> <<File(A_JS, [i \in 1..(n + 1) |->
                      LET w == Word((IF i > n THEN n ELSE i) - 1)
                      IN Stmt("js_require", w, 0, <<w>>)])>>]

HiddenName(i) == <<".", "n", Digits[i], ".", "j", "s">>

\* n files .n1.js, .n2.js, ... that each import every one of them by its
\* file name
HiddenCliqueTree(n) ==
    [kind |-> "dir",
     entries |-> [i \in 1..n |->
                     File(HiddenName(i),
                          [j \in 1..n |->
                              Stmt("js_default", HiddenName(j), 0, << <<"h">> >>)])]]

LargeTrees ==
    {ManyInternalTree(NODE_LIMIT),
     ManyInternalTree(EDGE_LIMIT + 1),
     ManyExternalTree(EXTERNAL_LIMIT + 1),
     SkewedExternalTree(EXTERNAL_LIMIT + 1),
     ManyFilesTree(ENTRY_POINT_LIMIT + 1),
     HiddenCliqueTree(DenseNodes)}

\* Files whose extension is not in the extension table.
D_TXT == <<"d", ".", "t", "x", "t">>

\* a single file d.txt, a directory that holds nothing else, and a directory
\* that also holds a.js; d.txt is empty or holds a line that reads like a
\* JavaScript import
UnknownTrees ==
    UNION {{[kind |-> "file", entries |-> <<File(D_TXT, text)>>],
            [kind |-> "dir", entries |-> <<File(D_TXT, text)>>],
            [kind |-> "dir", entries |-> <<File(D_TXT, text), File(A_JS, <<>>)>>]} :
           text \in {<<>>, <<Stmt("js_default", <<".", "/", "b">>, 0, << <<"b">> >>)>>}}

\* Files that fail on their own.
\* Largest number of lines of a Python file with a faulty line.
MaxFaultyLines == 2

\* def broken(; a line of NUL bytes
FaultyStatements ==
    {Stmt("py_def_broken", <<>>, 0, <<>>), Stmt("nul_bytes", <<>>, 0, <<>>)}

\* the texts of at most MaxFaultyLines lines that hold a faulty line
FaultyTexts ==
    {t \in UNION {TextsOf(PyStatements \cup FaultyStatements, n) : n \in 1..MaxFaultyLines} :
        \E i \in 1..Len(t) : t[i].form \in FaultyForms}

\* import b from './b'; const os = require('os')
HealthyFile ==
    File(A_JS, <<Stmt("js_default", <<".", "/", "b">>, 0, << <<"b">> >>),
                 Stmt("js_require", <<"o", "s">>, 0, << <<"o", "s">> >>)>>)

\* c.py with a faulty text or an unreadable file, alone, before or after a.js
FaultyTrees ==
    LET faulty == {File(C_PY, t) : t \in FaultyTexts}
                  \cup {UnreadableFile(rel, <<Stmt("py_import", <<"o", "s">>, 0,
                                                   << <<"o", "s">> >>)>>) :
                            rel \in {C_PY, B_JS}}
    IN UNION {{[kind |-> "file", entries |-> <<f>>],
               [kind |-> "dir", entries |-> <<f, HealthyFile>>],
               [kind |-> "dir", entries |-> <<HealthyFile, f>>]} : f \in faulty}

\* Scenario B: one file that imports a standard-library module and a
\* third-party module, in each language
E_JAVA == <<"e", ".", "j", "a", "v", "a">>
F_GO == <<"f", ".", "g", "o">>
G_TS == <<"g", ".", "t", "s">>
JAVA_UTIL_LIST == <<"j", "a", "v", "a", ".", "u", "t", "i", "l", ".", "L", "i", "s", "t">>
ORG_JUNIT_TEST == <<"o", "r", "g", ".", "j", "u", "n", "i", "t", ".", "T", "e", "s", "t">>
GITHUB_X_Y == <<"g", "i", "t", "h", "u", "b", ".", "c", "o", "m", "/", "x", "/", "y">>
REQUESTS == <<"r", "e", "q", "u", "e", "s", "t", "s">>

ScenarioBFiles ==
    {File(C_PY, <<Stmt("py_import", <<"o", "s">>, 0, << <<"o", "s">> >>),
                  Stmt("py_import", REQUESTS, 0, <<REQUESTS>>)>>),
     File(A_JS, <<Stmt("js_require", <<"f", "s">>, 0, << <<"f", "s">> >>),
                  Stmt("js_default", <<"r", "e", "a", "c", "t">>, 0,
                       << <<"r", "e", "a", "c", "t">> >>)>>),
     File(G_TS, <<Stmt("js_namespace", <<"f", "s">>, 0, << <<"f", "s">> >>),
                  Stmt("js_named", <<"r", "e", "a", "c", "t">>, 0,
                       << <<"u", "s", "e">> >>)>>),
     File(E_JAVA, <<Stmt("java_import", JAVA_UTIL_LIST, 0, <<>>),
                    Stmt("java_import", ORG_JUNIT_TEST, 0, <<>>)>>),
     File(F_GO, <<Stmt("go_single", <<"f", "m", "t">>, 0, <<>>),
                  Stmt("go_single", GITHUB_X_Y, 0, <<>>)>>)}

ScenarioBTrees == {[kind |-> "file", entries |-> <<f>>] : f \in ScenarioBFiles}

\* the locals of map_dependencies and find_circular_dependencies before the
\* first statement, and no response sent
Fresh ==
    /\ source_files = <<>>
    /\ file_pos = 0
    /\ relative_path = <<>>
    /\ file_lang = "unknown"
    /\ imports = <<>>
    /\ internal_deps = <<>>
    /\ external_deps_map = <<>>
    /\ edges = <<>>
    /\ all_nodes = <<>>
    /\ external_nodes = <<>>
    /\ external_deps = <<>>
    /\ graph_nodes = <<>>
    /\ graph_edges = <<>>
    /\ outputs = <<>>
    /\ status_code = 0
    /\ adj = <<>>
    /\ roots = <<>>
    /\ DfsIdle

Init ==
    /\ caller = "map_dependencies"
    /\ pc = "start"
    /\ \/ /\ fs \in SmallTrees(MaxImports) \cup UnknownTrees \cup FaultyTrees
                   \cup ScenarioBTrees
          /\ inputs \in [language : {"auto"}, depth : {3},
                         include_external : BOOLEAN, output_format : {"summary"}]
       \/ /\ fs \in SmallTrees(MaxFilteredImports) \cup UnknownTrees
          /\ inputs \in [language : {"javascript"}, depth : {3},
                         include_external : BOOLEAN, output_format : {"summary"}]
       \/ /\ fs \in LargeTrees
          /\ inputs = [language |-> "auto", depth |-> 3, include_external |-> TRUE,
                       output_format |-> "summary"]
    /\ Fresh
    /\ previous = <<>>
    /\ UnitIdle

Next ==
    \/ Start
    \/ NextFile
    \/ ProcessImport
    \/ BuildLists
    \/ DfsRoot
    \/ DfsNeighbor
    \/ DfsReturn
    \/ DfsFinish
    \/ Assemble

Spec == Init /\ [][Next]_vars

\* ------------------------------------------------------------------------
\* Two requests for the same tree, one after the other
\* ------------------------------------------------------------------------
\* The trees of the repeated requests: the enumerated ones and two hidden
\* files that import themselves and each other.
RepeatClique == 2

RepeatedTrees == SmallTrees(MaxImports) \cup {HiddenCliqueTree(RepeatClique)}

InitRepeat ==
    /\ caller = "map_dependencies"
    /\ pc = "start"
    /\ fs \in RepeatedTrees
    /\ inputs = [language |-> "auto", depth |-> 3, include_external |-> TRUE,
                 output_format |-> "summary"]
    /\ Fresh
    /\ previous = <<>>
    /\ UnitIdle

\* the first request was answered; the same request is made again: nothing
\* of the first invocation is kept but the report the client holds
Rerun ==
    /\ pc = "done"
    /\ caller = "map_dependencies"
    /\ previous = <<>>
    /\ previous' = <<outputs>>
    /\ pc' = "start"
    /\ source_files' = <<>>
    /\ file_pos' = 0
    /\ relative_path' = <<>>
    /\ file_lang' = "unknown"
    /\ imports' = <<>>
    /\ internal_deps' = <<>>
    /\ external_deps_map' = <<>>
    /\ edges' = <<>>
    /\ all_nodes' = <<>>
    /\ external_nodes' = <<>>
    /\ external_deps' = <<>>
    /\ graph_nodes' = <<>>
    /\ graph_edges' = <<>>
    /\ outputs' = <<>>
    /\ status_code' = 0
    /\ adj' = <<>>
    /\ roots' = <<>>
    /\ stack' = <<>>
    /\ cycles' = <<>>
    /\ visited' = {}
    /\ rec_stack' = <<>>
    /\ circular' = <<>>
    /\ UNCHANGED <<caller, unitVars, fs, inputs>>

NextRepeat == Next \/ Rerun

SpecRepeat == InitRepeat /\ [][NextRepeat]_vars

\* ------------------------------------------------------------------------
\* Direct calls of is_external_dependency (as the unit tests make them)
\* ------------------------------------------------------------------------
\* Largest number of dot- or slash-separated parts of a module name.
MaxParts == 2

ModulePrefixes ==
    {<<>>, <<".">>, <<".", ".">>, <<".", "/">>, <<"/">>, <<"n", "o", "d", "e", ":">>}

ModuleParts ==
    {<<"o", "s">>, <<"j", "a", "v", "a">>, <<"j", "a", "v", "a", "x">>,
     <<"j", "a", "v", "a", "f", "x">>, <<"f", "m", "t">>, REQUESTS}

RECURSIVE ModuleNames(_)
\* the names of exactly n parts
ModuleNames(n) ==
    IF n = 1 THEN ModuleParts
    ELSE {m \o <<sep>> \o part :
             m \in ModuleNames(n - 1), sep \in {".", "/"}, part \in ModuleParts}

Modules ==
    {prefix \o m : prefix \in ModulePrefixes,
                   m \in UNION {ModuleNames(n) : n \in 1..MaxParts}}

LanguageTags ==
    {"python", "javascript", "typescript", "java", "go", "unknown", "ruby"}

InitClassify ==
    /\ caller = "direct"
    /\ pc = "classify"
    /\ ScanIdle
    /\ edges = <<>>
    /\ adj = <<>>
    /\ roots = <<>>
    /\ DfsIdle
    /\ call \in [module : Modules, language : LanguageTags]
    /\ returned = <<>>

\* is_external_dependency(module, language) is called and returns
Classify ==
    /\ pc = "classify"
    /\ returned' = <<is_external_dependency(call.module, call.language)>>
    /\ pc' = "done"
    /\ UNCHANGED <<caller, previous, call, scanVars, dfsVars>>

NextClassify == Classify

SpecClassify == InitClassify /\ [][NextClassify]_vars

\* ------------------------------------------------------------------------
\* Graph notions the claims are stated with
\* ------------------------------------------------------------------------
Targets(d, n) == Range(Get(d, n, <<>>))

GraphNodes(d) == Range(Keys(d)) \cup UNION {Targets(d, n) : n \in Range(Keys(d))}

RECURSIVE ReachFrom(_, _)
\* the nodes reachable from the set S in zero or more edges
ReachFrom(d, S) ==
    LET next == S \cup UNION {Targets(d, n) : n \in S}
    IN IF next = S THEN S ELSE ReachFrom(d, next)

\* some node reaches itself in one or more edges
HasDirectedCycle(d) ==
    \E n \in GraphNodes(d) : n \in ReachFrom(d, Targets(d, n))

Returned == pc \in {"metrics", "done"}

\* C2: find_circular_dependencies never raises, returns at most 10 cycles,
\* and every returned cycle starts and ends with the same node id.
C2_CyclesBoundedAndClosed ==
    /\ pc # "raised"
    /\ Returned =>
        /\ Len(circular) <= 10
        /\ \A i \in 1..Len(circular) :
              /\ Len(circular[i]) >= 1
              /\ circular[i][1] = circular[i][Len(circular[i])]

\* C2 witness: a search that found more than 10 cycles returned exactly 10.
C2_Witness == pc = "done" /\ Len(cycles) > 10 /\ Len(circular) = 10

\* C3: an edge map that holds a directed cycle (self-loops included) makes
\* the search return at least one cycle, for every iteration order.
C3_CycleIsFound ==
    (Returned /\ HasDirectedCycle(adj)) => circular # <<>>

\* C3 witness: the only cycle of the map is a self-loop, and it was returned.
C3_Witness ==
    /\ pc = "done"
    /\ \E n \in GraphNodes(adj) :
          /\ n \in Targets(adj, n)
          /\ ~HasDirectedCycle([i \in 1..Len(adj) |->
                  <<adj[i][1], IF adj[i][1] = n /\ InSeq(n, adj[i][2])
                               THEN RemoveAt(adj[i][2],
                                             CHOOSE k \in 1..Len(adj[i][2]) : adj[i][2][k] = n)
                               ELSE adj[i][2]>>])
    /\ Len(circular) = 1

\* C4: on an acyclic edge map the search neither raises nor returns a cycle,
\* for every iteration order.
C4_AcyclicIsEmpty ==
    ~HasDirectedCycle(adj) =>
        /\ pc # "raised"
        /\ Returned => circular = <<>>

\* C4 witness: an acyclic map in which one node is reached along two paths
\* (an edge into an already finished subtree) returned no cycle.
C4_Witness ==
    /\ pc = "done"
    /\ caller = "direct"
    /\ ~HasDirectedCycle(adj)
    /\ \E n \in GraphNodes(adj) :
          Cardinality({m \in GraphNodes(adj) : n \in Targets(adj, m)}) >= 2
    /\ circular = <<>>

\* ------------------------------------------------------------------------
\* Reports
\* ------------------------------------------------------------------------
\* map_dependencies has returned and /execute has answered
Done == pc = "done" /\ caller = "map_dependencies"

\* ... after analysing at least one file
Analysed == Done /\ source_files # <<>>

\* the format texts that hold the words "not found"
MentionsNotFound(summary) ==
    \E i \in 1..Len(summary) : summary[i].text \in {"Path not found: "}

\* the import records the scan reads, file after file
RECURSIVE RecordsOf(_)
RecordsOf(files) ==
    IF files = <<>> THEN <<>>
    ELSE LET f == files[Len(files)]
             lang == IF inputs.language # "auto" THEN inputs.language
                     ELSE detect_language(f.rel)
             recs == parse_file_imports(f, lang)
         IN RecordsOf(SubSeq(files, 1, Len(files) - 1))
            \o [i \in 1..Len(recs) |->
                   [source |-> f.rel, module |-> recs[i][1],
                    external |-> is_external_dependency(recs[i][1], lang)]]

\* the records of imports classified internal
InternalRecords ==
    SelectSeq(RecordsOf(source_files), LAMBDA r : r.module # <<>> /\ ~r.external)

\* the root names of the imports classified external
ExternalRoots ==
    {RootModule(r.module) :
        r \in {x \in Range(RecordsOf(source_files)) : x.module # <<>> /\ x.external}}

\* the length of the returned lists that total_dependencies is compared with
ReturnedSum ==
    Len(outputs.internal_dependencies)
    + (IF inputs.include_external THEN Len(outputs.external_dependencies) ELSE 0)

\* C1 as claimed: total_dependencies equals the length of the returned
\* internal list plus, when include_external, that of the returned external
\* list, in every report.
C1_TotalEqualsReturnedLists ==
    Done => outputs.total_dependencies = ReturnedSum

\* C1 as amended: total_dependencies is counted before the lists are cut, so
\* it equals the sum of the returned lengths when neither list exceeded its
\* limit and is strictly greater when one did.
C1_TotalAtLeastReturnedLists ==
    Done =>
        IF Len(internal_deps) <= INTERNAL_LIMIT /\ Len(external_deps) <= EXTERNAL_LIMIT
        THEN outputs.total_dependencies = ReturnedSum
        ELSE outputs.total_dependencies > ReturnedSum

\* C1 witness: a report whose external list was cut to its limit.
C1_Witness ==
    /\ Done
    /\ Len(external_deps) > EXTERNAL_LIMIT
    /\ Len(outputs.external_dependencies) = EXTERNAL_LIMIT
    /\ outputs.total_dependencies > ReturnedSum

\* Path(p).stem of a file name
Stem(rel) == SubSeq(rel, 1, Len(rel) - Len(PathSuffix(rel)))

\* the text of f is one relative import of the module g
ImportsRelatively(f, g) ==
    /\ Len(f.text) = 1
    /\ \/ /\ f.text[1].form \in {"js_default", "js_named", "js_namespace", "js_require"}
          /\ f.text[1].module = <<".", "/">> \o Stem(g.rel)
       \/ /\ f.text[1].form = "py_from"
          /\ f.text[1].level = 1
          /\ f.text[1].module = Stem(g.rel)

\* Scenario A: a directory of two files of one language, each importing the
\* other relatively
ScenarioA ==
    /\ fs.kind = "dir"
    /\ Len(fs.entries) = 2
    /\ PathSuffix(fs.entries[1].rel) = PathSuffix(fs.entries[2].rel)
    /\ Stem(fs.entries[1].rel) # <<>>
    /\ Stem(fs.entries[2].rel) # <<>>
    /\ ImportsRelatively(fs.entries[1], fs.entries[2])
    /\ ImportsRelatively(fs.entries[2], fs.entries[1])

\* C5 as claimed: scenario A reports exactly one cycle, of two edges, both
\* files as internal nodes, and no entry point.
C5_ScenarioAOneCycle ==
    (Done /\ ScenarioA) =>
        /\ Len(outputs.circular_dependencies) = 1
        /\ Len(outputs.circular_dependencies[1]) = 3
        /\ \A i \in 1..2 :
              GraphNode(fs.entries[i].rel, "internal") \in Range(outputs.dependency_graph.nodes)
        /\ outputs.entry_points = <<>>

\* C6: every entry point is an internal node, has at least one outgoing
\* internal edge and is the target of no internal edge.
C6_EntryPoints ==
    Analysed =>
        \A i \in 1..Len(outputs.entry_points) :
            LET n == outputs.entry_points[i]
            IN /\ InSeq(n, all_nodes)
               /\ GraphNode(n, "internal") \in Range(graph_nodes)
               /\ \E e \in Range(graph_edges) : e.source = n
               /\ \A e \in Range(graph_edges) : e.target # n

\* C6 witness: a report with an entry point and a self-importing file, which
\* is not an entry point.
C6_Witness ==
    /\ Analysed
    /\ outputs.entry_points # <<>>
    /\ \E e \in Range(graph_edges) :
          e.source = e.target /\ ~InSeq(e.source, outputs.entry_points)

\* C7 as claimed: both ends of every returned edge are ids of returned nodes.
C7_EdgeEndsAreNodes ==
    Done =>
        LET ids == {outputs.dependency_graph.nodes[i].id :
                       i \in 1..Len(outputs.dependency_graph.nodes)}
        IN \A i \in 1..Len(outputs.dependency_graph.edges) :
              /\ outputs.dependency_graph.edges[i].source \in ids
              /\ outputs.dependency_graph.edges[i].target \in ids

\* C8 as claimed: total_dependencies is the number of distinct internal
\* (source, target) pairs plus, when included, the number of distinct external
\* names, so a repeated import does not change it.
C8_TotalCountsUniqueEdges ==
    Analysed =>
        outputs.total_dependencies =
            Cardinality({<<r.source, r.module>> : r \in Range(InternalRecords)})
            + (IF inputs.include_external THEN Cardinality(ExternalRoots) ELSE 0)

\* C8 as amended: total_dependencies is the number of internal import
\* records, a repeated import counting each time, plus, when included, the
\* number of distinct external root names.
C8_TotalCountsImportRecords ==
    Analysed =>
        outputs.total_dependencies =
            Len(InternalRecords)
            + (IF inputs.include_external THEN Cardinality(ExternalRoots) ELSE 0)

\* C8 witness: a report on a tree that imports one target twice from one file.
C8_Witness ==
    /\ Analysed
    /\ Len(InternalRecords) > Len(graph_edges)
    /\ outputs.total_dependencies = Len(InternalRecords) + Len(external_deps)

\* C9: every returned list respects its limit and the request succeeds.
C9_OutputLimits ==
    /\ pc # "raised"
    /\ Done =>
        /\ status_code = 200
        /\ Len(outputs.internal_dependencies) <= 100
        /\ Len(outputs.external_dependencies) <= 50
        /\ Len(outputs.dependency_graph.nodes) <= 200
        /\ Len(outputs.dependency_graph.edges) <= 500
        /\ Len(outputs.circular_dependencies) <= 10
        /\ Len(outputs.entry_points) <= 20
        /\ Len(outputs.highly_depended) <= 10

\* C9 witness: a successful report for which the scan had found more
\* internal dependencies, nodes and targets than the limits allow.
C9_Witness ==
    /\ Done
    /\ status_code = 200
    /\ Len(internal_deps) > 100
    /\ Len(graph_nodes) > 200
    /\ Len(UnionAll(edges)) > 10
    /\ Len(outputs.internal_dependencies) = 100
    /\ Len(outputs.dependency_graph.nodes) = 200
    /\ Len(outputs.highly_depended) = 10

\* C10: a missing path is answered, without a scan, by a 200 response whose
\* summary says "not found", whose total is 0 and whose lists are all empty.
C10_MissingPath ==
    fs.kind = "missing" =>
        /\ pc \in {"start", "done"}
        /\ pc = "done" =>
            /\ status_code = 200
            /\ MentionsNotFound(outputs.summary)
            /\ outputs.total_dependencies = 0
            /\ outputs.internal_dependencies = <<>>
            /\ outputs.external_dependencies = <<>>
            /\ outputs.dependency_graph.nodes = <<>>
            /\ outputs.dependency_graph.edges = <<>>
            /\ outputs.circular_dependencies = <<>>
            /\ outputs.entry_points = <<>>
            /\ outputs.highly_depended = <<>>

\* C10 witness: the request for a missing path has been answered.
C10_Witness == fs.kind = "missing" /\ pc = "done" /\ status_code = 200

\* ------------------------------------------------------------------------
\* Degenerate and partial reports
\* ------------------------------------------------------------------------
\* the scan root exists and no file at or below it has an extension of the
\* extension table
NoRecognizedSource ==
    /\ fs.kind # "missing"
    /\ \A i \in 1..Len(fs.entries) : detect_language(fs.entries[i].rel) = "unknown"

\* the summary is the "No source files found in: ..." sentence
MentionsNoSourceFiles(summary) ==
    \E i \in 1..Len(summary) : summary[i].text = "No source files found in: "

\* the report counts nothing: total 0 and every list empty
AllCountsZero(report) ==
    /\ report.total_dependencies = 0
    /\ report.internal_dependencies = <<>>
    /\ report.external_dependencies = <<>>
    /\ report.dependency_graph.nodes = <<>>
    /\ report.dependency_graph.edges = <<>>
    /\ report.circular_dependencies = <<>>
    /\ report.entry_points = <<>>
    /\ report.highly_depended = <<>>

\* C11 as claimed: when the scan root exists and holds no file of a
\* recognized language (a directory without one, or a single file with an
\* unknown extension), the summary says that no source files were found and
\* every count is zero.
C11_NoRecognizedSources ==
    (Done /\ NoRecognizedSource) =>
        /\ MentionsNoSourceFiles(outputs.summary)
        /\ AllCountsZero(outputs)

\* the language the scan reads f in
LangOf(f) ==
    IF inputs.language # "auto" THEN inputs.language ELSE detect_language(f.rel)

\* open() or read() fails on f
Unreadable(f) == ~f.readable

\* f is read as Python and ast.parse raises SyntaxError on it (invalid syntax
\* or NUL bytes)
SyntaxBroken(f) == f.readable /\ LangOf(f) = "python" /\ ~f.syntax_ok

\* the imports a scan is to take from f: none from an unreadable file, the
\* pattern-extracted ones from a file with broken syntax
ExpectedImports(f) ==
    IF Unreadable(f) THEN <<>>
    ELSE IF SyntaxBroken(f) THEN parse_python_imports_regex(f.text)
    ELSE parse_file_imports(f, LangOf(f))

RECURSIVE ExpectedRecords(_)
\* the same for a list of files, file after file, each record with its source
\* and its class
ExpectedRecords(files) ==
    IF files = <<>> THEN <<>>
    ELSE LET f == files[Len(files)]
             recs == SelectSeq(ExpectedImports(f), LAMBDA r : r[1] # <<>>)
         IN ExpectedRecords(SubSeq(files, 1, Len(files) - 1))
            \o [i \in 1..Len(recs) |->
                   [source |-> f.rel, target |-> recs[i][1], import_type |-> recs[i][2],
                    symbols |-> recs[i][3], language |-> LangOf(f),
                    external |-> is_external_dependency(recs[i][1], LangOf(f))]]

\* the report lists exactly the dependencies of the expected records
ReportsExpected(report, files) ==
    LET expected == ExpectedRecords(files)
        internal == SelectSeq(expected, LAMBDA r : ~r.external)
        external == SelectSeq(expected, LAMBDA r : r.external /\ inputs.include_external)
        Uses(name) == {i \in 1..Len(external) : RootModule(external[i].target) = name}
    IN /\ report.internal_dependencies =
              Take([i \in 1..Len(internal) |->
                       InternalDependency(internal[i].source, internal[i].target,
                                          internal[i].import_type, internal[i].symbols)],
                   INTERNAL_LIMIT)
       /\ Len(external) <= EXTERNAL_LIMIT =>
              /\ {e.name : e \in Range(report.external_dependencies)}
                     = {RootModule(external[i].target) : i \in 1..Len(external)}
              /\ \A e \in Range(report.external_dependencies) :
                    /\ e.import_count = Cardinality(Uses(e.name))
                    /\ Range(e.used_in) \subseteq {external[i].source : i \in Uses(e.name)}

\* C12: a file that cannot be read, or a Python file whose syntax is invalid
\* or whose content is binary, never aborts the scan: the request is answered
\* with status 200, the file is counted in the summary and is an internal
\* node, and the dependencies reported are those of the other files together
\* with nothing (unreadable) or the pattern-extracted imports (broken syntax)
\* of the failing file.
C12_FileFailureIsLocal ==
    /\ pc # "raised"
    /\ (Done /\ \E f \in Range(source_files) : Unreadable(f) \/ SyntaxBroken(f)) =>
          /\ status_code = 200
          /\ outputs.summary[1] = Sentence("Analyzed {} file(s).", <<Len(fs.entries)>>)
          /\ \A f \in Range(source_files) :
                GraphNode(f.rel, "internal") \in Range(outputs.dependency_graph.nodes)
          /\ ReportsExpected(outputs, source_files)

\* C12 witness: a report on a directory of two files, one with broken syntax
\* that the patterns still find an import in, the other with an internal and
\* an external dependency that are both reported.
C12_Witness ==
    /\ Done
    /\ Len(source_files) = 2
    /\ \E f \in Range(source_files) : SyntaxBroken(f) /\ ExpectedImports(f) # <<>>
    /\ \E d \in Range(outputs.internal_dependencies) : d.source = A_JS
    /\ \E e \in Range(outputs.external_dependencies) : InSeq(A_JS, e.used_in)

\* ------------------------------------------------------------------------
\* External dependencies in the report
\* ------------------------------------------------------------------------
\* the imports of the scanned files that name neither a relative module nor,
\* by the classifier, a standard module
ThirdPartyOnly ==
    /\ ExpectedRecords(source_files) # <<>>
    /\ \A r \in Range(ExpectedRecords(source_files)) : r.external

\* C13: with include_external false the report lists no external dependency
\* and its graph holds no external node; if every import of the scanned
\* files is a third-party one, total_dependencies is 0.
C13_ExcludeExternal ==
    (Done /\ ~inputs.include_external) =>
        /\ outputs.external_dependencies = <<>>
        /\ \A n \in Range(outputs.dependency_graph.nodes) : n.type # "external"
        /\ ThirdPartyOnly => outputs.total_dependencies = 0

\* C13 witness: a report without externals on a file that imports
\* third-party modules only.
C13_Witness ==
    /\ Done
    /\ ~inputs.include_external
    /\ ThirdPartyOnly
    /\ outputs.total_dependencies = 0
    /\ outputs.external_dependencies = <<>>

\* the module is one the code's tables and comments call standard for the
\* language: a PYTHON_STDLIB root, a Node built-in, java.* or javax.*, a Go
\* path without dot and slash
StandardModule(module, language) ==
    CASE language = "python" -> SplitFirst(module, ".") \in PYTHON_STDLIB
      [] language \in {"javascript", "typescript"} ->
            module \in JAVASCRIPT_BUILTIN \/ startswith(module, <<"n", "o", "d", "e", ":">>)
      [] language = "java" ->
            startswith(module, <<"j", "a", "v", "a", ".">>)
            \/ startswith(module, <<"j", "a", "v", "a", "x", ".">>)
      [] language = "go" -> ~HasChar(module, ".") /\ ~HasChar(module, "/")
      [] OTHER -> FALSE

\* the module is neither relative or absolute nor standard
ThirdPartyModule(module, language) ==
    /\ ~startswith(module, <<".">>)
    /\ ~startswith(module, <<"/">>)
    /\ ~StandardModule(module, language)

\* Scenario B: the scan root is one file of a supported language that holds
\* two imports, one of a standard module and one of a third-party module
ScenarioB ==
    /\ fs.kind = "file"
    /\ inputs.include_external
    /\ LET f == fs.entries[1]
           recs == ExpectedImports(f)
       IN /\ LangOf(f) \in {"python", "javascript", "typescript", "java", "go"}
          /\ f.readable /\ f.syntax_ok
          /\ \A i \in 1..Len(f.text) : f.text[i].level = 0
          /\ Len(recs) = 2
          /\ \E i, j \in 1..2 : /\ StandardModule(recs[i][1], LangOf(f))
                                /\ ThirdPartyModule(recs[j][1], LangOf(f))

\* C14 as claimed: scenario B reports one or two external dependencies, each
\* with import_count 1, and no internal dependency.
C14_ScenarioB ==
    (Done /\ ScenarioB) =>
        /\ Len(outputs.external_dependencies) \in {1, 2}
        /\ \A e \in Range(outputs.external_dependencies) : e.import_count = 1
        /\ outputs.internal_dependencies = <<>>

\* C15 as claimed: a Python import whose target does not start with '.' is
\* classified external, standard-library or not: it is reported among the
\* external dependencies (when they are included) and creates neither an
\* internal dependency nor a graph edge.
C15_PythonStdlibExternal ==
    Done =>
        \A r \in Range(ExpectedRecords(source_files)) :
            (r.language = "python" /\ ~startswith(r.target, <<".">>)) =>
                /\ inputs.include_external =>
                      \E e \in Range(outputs.external_dependencies) :
                          e.name = RootModule(r.target)
                /\ \A d \in Range(outputs.internal_dependencies) :
                      ~(d.source = r.source /\ d.target = r.target)
                /\ \A e \in Range(outputs.dependency_graph.edges) :
                      ~(e.source = r.source /\ e.target = r.target)

\* ------------------------------------------------------------------------
\* The classifier, called directly
\* ------------------------------------------------------------------------
\* is_external_dependency has returned
Classified == pc = "done" /\ caller = "direct" /\ returned # <<>>

\* C16: for Python the classifier returns False exactly for the targets whose
\* root token is in PYTHON_STDLIB or that start with '.', for Java exactly for
\* the targets that start with 'java.', 'javax.' or '.', and True for every
\* other target of these languages.
C16_StdlibNotExternal ==
    Classified =>
        /\ call.language = "python" =>
              (returned[1] = FALSE <=>
                  (SplitFirst(call.module, ".") \in PYTHON_STDLIB
                   \/ startswith(call.module, <<".">>)))
        /\ call.language = "java" =>
              (returned[1] = FALSE <=>
                  (startswith(call.module, <<"j", "a", "v", "a", ".">>)
                   \/ startswith(call.module, <<"j", "a", "v", "a", "x", ".">>)
                   \/ startswith(call.module, <<".">>)))

\* C16 witness: the classifier returned False for a dotted Python target with
\* a standard-library root.
C16_Witness ==
    /\ Classified
    /\ call.language = "python"
    /\ HasChar(call.module, ".")
    /\ ~startswith(call.module, <<".">>)
    /\ SplitFirst(call.module, ".") \in PYTHON_STDLIB
    /\ returned = <<FALSE>>

\* C17 as claimed: for Go a target without path separator and without dot is
\* classified external.
C17_GoStandardExternal ==
    (Classified /\ call.language = "go"
     /\ ~HasChar(call.module, "/") /\ ~HasChar(call.module, ".")) =>
        returned = <<TRUE>>

\* C18: a target that starts with '.' is classified internal under every
\* language tag, and any other target under a tag that is none of the five
\* languages is classified external.
C18_RelativeInternal ==
    Classified =>
        /\ startswith(call.module, <<".">>) => returned = <<FALSE>>
        /\ (~startswith(call.module, <<".">>)
            /\ call.language \notin {"python", "javascript", "typescript", "java", "go"})
              => returned = <<TRUE>>

\* C18 witness: a relative target was classified internal under a tag that is
\* no known language.
C18_Witness ==
    /\ Classified
    /\ call.language = "ruby"
    /\ startswith(call.module, <<".", ".">>)
    /\ returned = <<FALSE>>

\* ------------------------------------------------------------------------
\* Repeated requests
\* ------------------------------------------------------------------------
\* both requests for the tree have been answered
BothDone == Done /\ previous # <<>>

\* C19 as claimed: two requests for the same unchanged tree with the same
\* inputs report identical internal dependencies, external dependencies
\* (used_in lists and order included) and circular dependencies, whatever the
\* order in which the sets are iterated.
C19_SameReportTwice ==
    BothDone =>
        /\ outputs.internal_dependencies = previous[1].internal_dependencies
        /\ outputs.external_dependencies = previous[1].external_dependencies
        /\ outputs.circular_dependencies = previous[1].circular_dependencies

\* ------------------------------------------------------------------------
\* Order and size of the external list
\* ------------------------------------------------------------------------
\* C20: the returned external dependencies are in non-increasing order of
\* import_count, no dependency that was cut off has a higher import_count
\* than one that was kept, at most 50 are kept, and every used_in list holds
\* at most 10 paths.
C20_ExternalSortedAndCut ==
    Done =>
        LET kept == outputs.external_dependencies
            found == {[name |-> external_deps_map[i][1],
                       import_count |-> external_deps_map[i][2].count] :
                         i \in 1..Len(external_deps_map)}
            dropped == {d \in found : \A k \in Range(kept) : k.name # d.name}
        IN /\ \A i, j \in 1..Len(kept) :
                 i < j => kept[i].import_count >= kept[j].import_count
           /\ Len(kept) = Min({Cardinality(found), 50})
           /\ \A d \in dropped, k \in Range(kept) : k.import_count >= d.import_count
           /\ \A k \in Range(kept) : Len(k.used_in) <= 10

\* C20 witness: of 51 packages found, the one imported twice was met last
\* and is reported first, and one of the others was cut off.
C20_Witness ==
    /\ Done
    /\ Len(external_deps_map) = 51
    /\ external_deps_map[51][2].count = 2
    /\ Len(outputs.external_dependencies) = 50
    /\ outputs.external_dependencies[1].name = external_deps_map[51][1]
    /\ outputs.external_dependencies[1].import_count = 2

\* ------------------------------------------------------------------------
\* Requests with a depth, and requests that name the language of a file
\* ------------------------------------------------------------------------
S_B_JS == <<"s", "/", "b", ".", "j", "s">>
S_T_C_JS == <<"s", "/", "t", "/", "c", ".", "j", "s">>
FMT == <<"f", "m", "t">>
FMT_X == <<"f", "m", "t", "/", "x">>

\* a.js imports ./s/b.js, s/b.js imports ./t/c, s/t/c.js imports nothing: one
\* file in the scan root, one a directory below, one two directories below
NestedTree ==
    [kind |-> "dir",
     entries |-> <<File(A_JS, <<Stmt("js_default", <<".", "/">> \o S_B_JS, 0,
                                     << <<"b">> >>)>>),
                   File(S_B_JS, <<Stmt("js_default", <<".", "/", "t", "/", "c">>, 0,
                                       << <<"c">> >>)>>),
                   File(S_T_C_JS, <<>>)>>]

\* a file named fmt, without extension, that holds import "fmt" and
\* import "fmt/x"; f.go with the same two lines
GoTrees ==
    LET text == <<Stmt("go_single", FMT, 0, <<>>), Stmt("go_single", FMT_X, 0, <<>>)>>
    IN {[kind |-> "file", entries |-> <<File(FMT, text)>>],
        [kind |-> "file", entries |-> <<File(F_GO, text)>>],
        [kind |-> "dir", entries |-> <<File(F_GO, text), File(A_JS, <<>>)>>]}

\* a file named os, without extension, that holds const os = require('os')
PlainFileTree ==
    [kind |-> "file",
     entries |-> <<File(<<"o", "s">>,
                        <<Stmt("js_require", <<"o", "s">>, 0, << <<"o", "s">> >>)>>)>>]

\* depth: int = Field(default=3, ge=-1)
DepthValues == {-1, 0, 1, 3}

InitProject ==
    /\ caller = "map_dependencies"
    /\ pc = "start"
    /\ fs \in {NestedTree, PlainFileTree} \cup GoTrees
    /\ inputs \in [language : {"auto", "go", "javascript"}, depth : DepthValues,
                   include_external : BOOLEAN, output_format : {"summary"}]
    /\ Fresh
    /\ previous = <<>>
    /\ UnitIdle

SpecProject == InitProject /\ [][Next]_vars

\* the number of directories between the scan root and the file
NestingLevel(rel) == Cardinality({i \in 1..Len(rel) : rel[i] = "/"})

\* C21: when a directory is scanned with depth d >= 0, no file nested deeper
\* than d levels below the scan root is among the files that are analysed.
C21_DepthLimitsTraversal ==
    (Done /\ fs.kind = "dir" /\ inputs.depth >= 0) =>
        \A i \in 1..Len(source_files) :
            NestingLevel(source_files[i].rel) <= inputs.depth

\* ------------------------------------------------------------------------
\* Several requests to one server process, one after the other
\* ------------------------------------------------------------------------
\* execute is a coroutine that calls map_dependencies without awaiting
\* anything, so the event loop runs the requests of a process one at a time.

\* Number of requests of a session.
MaxRequests == 2

\* b.js with import a from './a' and const os = require('os')
ImportingBack ==
    File(B_JS, <<Stmt("js_default", <<".", "/", "a">>, 0, << <<"a">> >>),
                 Stmt("js_require", <<"o", "s">>, 0, << <<"o", "s">> >>)>>)

\* .n1.js and .n2.js import each other by file name, and .n1.js requires os
HiddenPair ==
    [kind |-> "dir",
     entries |-> <<File(HiddenName(1),
                        <<Stmt("js_default", HiddenName(2), 0, << <<"h">> >>),
                          Stmt("js_require", <<"o", "s">>, 0, << <<"o", "s">> >>)>>),
                   File(HiddenName(2),
                        <<Stmt("js_default", HiddenName(1), 0, << <<"h">> >>)>>)>>]

\* two hidden files in a cycle, a.js and b.js with an internal and an
\* external import each, c.py alone, a directory without source files, and
\* a missing path
SessionTrees ==
    {HiddenPair,
     [kind |-> "dir", entries |-> <<HealthyFile, ImportingBack>>],
     [kind |-> "file", entries |-> <<File(C_PY, <<Stmt("py_import", REQUESTS, 0,
                                                       <<REQUESTS>>)>>)>>],
     [kind |-> "dir", entries |-> <<File(D_TXT, <<>>)>>],
     [kind |-> "missing", entries |-> <<>>]}

SessionInputs ==
    [language : {"auto"}, depth : {3}, include_external : BOOLEAN,
     output_format : {"summary"}]

InitSession ==
    /\ caller = "map_dependencies"
    /\ pc = "start"
    /\ fs \in SessionTrees
    /\ inputs \in SessionInputs
    /\ Fresh
    /\ previous = <<>>
    /\ UnitIdle

\* A bug that keeps the five containers in module-level variables, so that a
\* call goes on with what the call before it left in them.
NewContainersModuleLevel(held) == held

\* internal_deps = [], external_deps_map = defaultdict(...), edges =
\* defaultdict(set), all_nodes = set(), external_nodes = set(): every call
\* binds its names to new objects, whatever an earlier call held
NewContainers(held) ==
    [internal_deps |-> <<>>, external_deps_map |-> <<>>, edges |-> <<>>,
     all_nodes |-> <<>>, external_nodes |-> <<>>]

\* the response was sent and the next request arrives: a new call of
\* map_dependencies with its own inputs, the file system being what it is
\* then; the client keeps the report it received
NextRequest ==
    /\ pc = "done"
    /\ caller = "map_dependencies"
    /\ Len(previous) < MaxRequests - 1
    /\ previous' = Append(previous, outputs)
    /\ fs' \in SessionTrees
    /\ inputs' \in SessionInputs
    /\ pc' = "start"
    /\ LET new == NewContainers([internal_deps |-> internal_deps,
                                 external_deps_map |-> external_deps_map,
                                 edges |-> edges, all_nodes |-> all_nodes,
                                 external_nodes |-> external_nodes])
       IN /\ internal_deps' = new.internal_deps
          /\ external_deps_map' = new.external_deps_map
          /\ edges' = new.edges
          /\ all_nodes' = new.all_nodes
          /\ external_nodes' = new.external_nodes
    /\ source_files' = <<>>
    /\ file_pos' = 0
    /\ relative_path' = <<>>
    /\ file_lang' = "unknown"
    /\ imports' = <<>>
    /\ external_deps' = <<>>
    /\ graph_nodes' = <<>>
    /\ graph_edges' = <<>>
    /\ outputs' = <<>>
    /\ status_code' = 0
    /\ adj' = <<>>
    /\ roots' = <<>>
    /\ stack' = <<>>
    /\ cycles' = <<>>
    /\ visited' = {}
    /\ rec_stack' = <<>>
    /\ circular' = <<>>
    /\ UNCHANGED <<caller, unitVars>>

NextSession == Next \/ NextRequest

SpecSession == InitSession /\ [][NextSession]_vars

\* the report holds what the files of the request's own tree import, and
\* nothing else: dependencies, nodes, edges and the file count
OwnReport(report, files) ==
    LET expected == ExpectedRecords(files)
        internal == SelectSeq(expected, LAMBDA r : ~r.external)
        external == SelectSeq(expected, LAMBDA r : r.external /\ inputs.include_external)
    IN /\ ReportsExpected(report, files)
       /\ report.summary[1] = Sentence("Analyzed {} file(s).", <<Len(files)>>)
       /\ report.total_dependencies
              = Len(internal)
                + Cardinality({RootModule(external[i].target) : i \in 1..Len(external)})
       /\ Range(report.dependency_graph.nodes)
              = {GraphNode(f.rel, "internal") : f \in Range(files)}
                \cup {GraphNode(internal[i].target, "internal") : i \in 1..Len(internal)}
                \cup {GraphNode(RootModule(external[i].target), "external") :
                         i \in 1..Len(external)}
       /\ Range(report.dependency_graph.edges)
              = {GraphEdge(internal[i].source, internal[i].target) :
                    i \in 1..Len(internal)}
       /\ \A c \in Range(report.circular_dependencies) :
             \A k \in 1..(Len(c) - 1) :
                 GraphEdge(c[k], c[k + 1]) \in Range(report.dependency_graph.edges)
       /\ Range(report.entry_points)
              \subseteq {internal[i].source : i \in 1..Len(internal)}
       /\ {h.path : h \in Range(report.highly_depended)}
              = {internal[i].target : i \in 1..Len(internal)}

C23_ExternalNotInCycle ==
    Done =>
        \A n \in Range(outputs.dependency_graph.nodes) :
            n.type = "external" =>
                \A c \in Range(outputs.circular_dependencies) : ~InSeq(n.id, c)

\* the rotations of a sequence
Rotations(s) == {SubSeq(s, k, Len(s)) \o SubSeq(s, 1, k - 1) : k \in 1..Len(s)}

\* the cycles of an edge map as sequences of distinct nodes, each with an
\* edge to the next and the last with an edge to the first
SimpleCycles(d) ==
    {s \in DistinctSeqs(GraphNodes(d), Cardinality(GraphNodes(d))) :
        /\ s # <<>>
        /\ \A i \in 1..Len(s) : s[(i % Len(s)) + 1] \in Targets(d, s[i])}

\* the distinct cycles of an edge map: one class of rotations each
DistinctCycles(d) == {Rotations(s) : s \in SimpleCycles(d)}

\* a reported cycle without its repeated last element
Open(c) == SubSeq(c, 1, Len(c) - 1)

\* C24: when the edge map holds at most 10 distinct cycles, every one of
\* them is reported (started at some node of it); when it holds more, the
\* first 10 that the search found are returned.
C24_EveryCycleReported ==
    (pc = "done") =>
        IF Cardinality(DistinctCycles(adj)) <= CIRCULAR_LIMIT
        THEN \A K \in DistinctCycles(adj) :
                \E c \in Range(circular) : Open(c) \in K
        ELSE circular = Take(cycles, CIRCULAR_LIMIT) /\ Len(circular) = CIRCULAR_LIMIT

\* ------------------------------------------------------------------------
\* Highly depended files
\* ------------------------------------------------------------------------
\* the position of the first import of the target among the imports the scan
\* classified internal, in scan order
FirstSeen(target) ==
    Min({i \in 1..Len(internal_deps) : internal_deps[i].target = target})

\* the number of distinct files that import the target
Dependents(target) ==
    Cardinality({d.source : d \in {x \in Range(internal_deps) : x.target = target}})

\* C25: highly_depended lists targets of internal imports with their number
\* of distinct importing files, in non-increasing order of that number, at
\* most 10 of them and none with a smaller number than one left out; targets
\* with equal numbers stand in the order the scan first met them; the file
\* the summary names as most depended has the largest number.
C25_HighlyDependedOrder ==
    Done =>
        LET h == outputs.highly_depended
            all == {d.target : d \in Range(internal_deps)}
        IN /\ Len(h) <= HIGHLY_DEPENDED_LIMIT
           /\ \A i \in 1..Len(h) :
                 /\ h[i].path \in all
                 /\ h[i].dependents_count = Dependents(h[i].path)
           /\ \A i, j \in 1..Len(h) : i < j =>
                 /\ h[i].dependents_count >= h[j].dependents_count
                 /\ h[i].path # h[j].path
                 /\ h[i].dependents_count = h[j].dependents_count =>
                       FirstSeen(h[i].path) < FirstSeen(h[j].path)
           /\ \A t \in all : (\A i \in 1..Len(h) : h[i].path # t) =>
                 /\ Len(h) = HIGHLY_DEPENDED_LIMIT
                 /\ Dependents(t) <= h[Len(h)].dependents_count
           /\ all # {} =>
                 outputs.summary[Len(outputs.summary)] =
                     Sentence("Most depended: {} ({} dependents).",
                              <<h[1].path, Max({Dependents(t) : t \in all})>>)

\* ------------------------------------------------------------------------
\* Edges
\* ------------------------------------------------------------------------
\* the (source, target) pairs of the imports classified internal
InternalPairs == {<<r.source, r.module>> : r \in Range(InternalRecords)}

\* C26: the edge map and the returned graph hold at most one edge per
\* (source, target) pair and every edge has weight 1; every import classified
\* internal adds one internal_dependencies record, repeated or not, and the
\* edges are the distinct pairs of those records.
C26_OneEdgePerPair ==
    /\ \A i \in 1..Len(edges) :
          Cardinality(Range(edges[i][2])) = Len(edges[i][2])
    /\ Done =>
          LET ge == outputs.dependency_graph.edges
          IN /\ Cardinality({<<e.source, e.target>> : e \in Range(ge)}) = Len(ge)
             /\ \A i \in 1..Len(ge) : ge[i].weight = 1
             /\ Len(outputs.internal_dependencies)
                    = Min({Len(InternalRecords), INTERNAL_LIMIT})
             /\ Cardinality(InternalPairs) <= EDGE_LIMIT =>
                    {<<e.source, e.target>> : e \in Range(ge)} = InternalPairs

\* C26 witness: a report with two internal_dependencies records for the same
\* pair and one edge.
C26_Witness ==
    /\ Done
    /\ Len(outputs.internal_dependencies) = 2
    /\ outputs.internal_dependencies[1].source = outputs.internal_dependencies[2].source
    /\ outputs.internal_dependencies[1].target = outputs.internal_dependencies[2].target
    /\ Len(outputs.dependency_graph.edges) = 1

\* ------------------------------------------------------------------------
\* The cycles the search reports
\* ------------------------------------------------------------------------
\* C27: every cycle the search has found or returned is a closed walk of the
\* edge map: at least 2 elements, the first equal to the last, an edge of the
\* map from each element to the next, and no node twice but the first/last.
C27_CycleIsClosedWalk ==
    \A c \in Range(cycles) \cup Range(circular) :
        /\ Len(c) >= 2
        /\ c[1] = c[Len(c)]
        /\ \A k \in 1..(Len(c) - 1) : c[k + 1] \in Targets(adj, c[k])
        /\ Cardinality(Range(Open(c))) = Len(c) - 1

\* C27 witness: a direct call returned a self-loop and a cycle through three
\* nodes that does not start at the root of its search.
C27_Witness ==
    /\ pc = "done"
    /\ caller = "direct"
    /\ \E c \in Range(circular) : Len(c) = 2
    /\ \E c \in Range(circular) : Len(c) = 4 /\ c[1] # adj[1][1]

\* the edge that closed the cycle: from its last node back to its first
BackEdge(c) == <<c[Len(c) - 1], c[Len(c)]>>

\* C28: among the cycles the search has found, and among those it returns, no
\* two are equal, no two are rotations of one another, and no two were
\* closed by the same back-edge.
C28_NoRotations ==
    \A found \in {cycles, circular} :
        \A i, j \in 1..Len(found) :
            i # j => /\ Open(found[j]) \notin Rotations(Open(found[i]))
                     /\ BackEdge(found[i]) # BackEdge(found[j])

\* C28 witness: a direct call on a map in which every node lies on a cycle
\* through all three nodes returned that cycle once, along with others.
C28_Witness ==
    /\ pc = "done"
    /\ caller = "direct"
    /\ Len(circular) >= 2
    /\ Cardinality({i \in 1..Len(circular) : Len(circular[i]) = 4}) = 1
    /\ \A n \in CycleNodes : HasKey(adj, n) /\ Get(adj, n, <<>>) # <<>>

\* C29: in the returned graph every node id occurs once in the nodes list,
\* and no id belongs to an internal node and to an external node.
C29_NodeIdsUnique ==
    Done =>
        LET nodes == outputs.dependency_graph.nodes
        IN /\ Cardinality({n.id : n \in Range(nodes)}) = Len(nodes)
           /\ \A n, m \in Range(nodes) : n.id = m.id => n.type = m.type

\* ------------------------------------------------------------------------
\* Termination of the search
\* ------------------------------------------------------------------------
\* rec_stack is the path from the root of the running top-level search to
\* the node being expanded: the nodes of the active calls, outermost first,
\* each call's path argument being the part before its node; no node is on
\* it twice and every node on it is in visited
StackIsPath ==
    /\ rec_stack = [i \in 1..Len(stack) |-> stack[i].node]
    /\ \A i \in 1..Len(stack) : stack[i].path = SubSeq(rec_stack, 1, i - 1)
    /\ Cardinality(Range(rec_stack)) = Len(rec_stack)
    /\ Range(rec_stack) \subseteq visited

\* a call of dfs that goes on to expand its node: the node was not in
\* visited before and is in it after
ExpandsOnce ==
    Len(stack') > Len(stack) =>
        /\ stack'[Len(stack')].node \notin visited
        /\ visited' = visited \cup {stack'[Len(stack')].node}

\* C30: the search terminates on every edge map; a node is expanded only
\* when it is not yet in visited, and is added to it then; rec_stack is
\* always the path from the search root to the current node; rec_stack is
\* empty whenever no top-level search is running, and at the end every node
\* of the map is in visited.
C30_SearchTerminates ==
    /\ [](pc # "raised" /\ StackIsPath)
    /\ [](stack = <<>> => rec_stack = <<>>)
    /\ [](pc = "done" => visited = GraphNodes(adj))
    /\ [][ExpandsOnce]_vars
    /\ <>(pc = "done")

\* C30 witness: a direct call on a map that holds a self-loop and a longer
\* cycle has returned, with every node visited and nothing left on rec_stack.
C30_Witness ==
    /\ pc = "done"
    /\ caller = "direct"
    /\ \E n \in GraphNodes(adj) : n \in Targets(adj, n)
    /\ \E c \in Range(circular) : Len(c) > 2
    /\ visited = GraphNodes(adj)
    /\ rec_stack = <<>>

====
